---- MODULE Spec2Model ----
(***************************************************************************)
(* A model of js-fea's Field (src/src/field.js): the per-node value        *)
(* container, the prescribed (Dirichlet) tables, the lazily computed and   *)
(* cached equation numbering, gather/scatter and the point-wise            *)
(* operations.                                                             *)
(*                                                                         *)
(* JS arrays indexed from 0 that the Field owns (the tables) are functions *)
(* over 0..n-1; argument and result vectors (vec, conn, gathered vectors)  *)
(* are sequences, JS position k being element k+1.                         *)
(***************************************************************************)
EXTENDS Integers, Sequences, FiniteSets, TLC

VARIABLES u, last, w, shared, cs, cslast, jlast, ms, mlast, nl

vars == <<u, last, w, shared, cs, cslast, jlast, ms, mlast, nl>>

(***************************************************************************)
(* Bounds of the model.                                                    *)
(***************************************************************************)
\* fields have 1..MaxNfens nodes
MaxNfens == 2
\* at most MaxPrescribed components of a field are prescribed
MaxPrescribed == 2

(***************************************************************************)
(* JS values.                                                              *)
(***************************************************************************)
\* null: the tables before they are allocated (a table of a field with at
\* least one node is never the empty function)
Null == <<>>

\* what a call that throws leaves as its result
Thrown == "Error"

\* what a call that returns nothing leaves as its result
Undefined == "undefined"

\* stands for every JS number that is no integer (a fraction, Infinity,
\* NaN): no value the fields here hold and no sum, difference or product of
\* two of them comes near it
NotInteger == -1000000

\* core.utils array2d(m, n, v): an m x n table filled with v
array2d(m, n, v) == [i \in 0..(m - 1) |-> [j \in 0..(n - 1) |-> v]]

\* a call's outcome: the field afterwards, whether it threw, what it returned
Outcome(f, threw, ret) == [f |-> f, threw |-> threw, ret |-> ret]

(***************************************************************************)
(* Field: construction and the plain accessors.                            *)
(***************************************************************************)
\* new Field({values: values}) / new Field({values: values, ebcs: []}), for
\* a values matrix with at least one row: the field keeps the matrix as its
\* point set (nfens and dim are the point set's size and dimension); with
\* ebcs the two prescribed tables are allocated, all false / all 0
Field(values, withEbcs) ==
  LET n == Cardinality(DOMAIN values)
      d == Cardinality(DOMAIN values[0])
  IN [ nfens |-> n,
       dim |-> d,
       values |-> values,
       prescribed |-> IF withEbcs THEN array2d(n, d, FALSE) ELSE Null,
       prescribedValues |-> IF withEbcs THEN array2d(n, d, 0) ELSE Null,
       eqnums |-> Null,
       neqns |-> -1 ]

nfens(f) == f.nfens

dim(f) == f.dim

\* PointSet (geometry.pointset), held as the matrix of its points:
\* get(idx) is the point's vector, setAtDir_(idx, dir, val) writes one
\* component of one point, map(fn) is the point set of fn(vec, i)
get(values, idx) == values[idx]

setAtDir_(values, idx, dir, val) == [values EXCEPT ![idx][dir] = val]

\* at(idx): the node's vector of values
at(f, idx) == get(f.values, idx)

INVALID_EQUATION_NUM == -1

isPrescribed(f, index, direction) ==
  IF f.prescribed = Null THEN FALSE ELSE f.prescribed[index][direction]

\* prescribedValue as it would be if a free component gave its current value
\* instead of 0
prescribedValueOrCurrent(f, index, direction) ==
  IF isPrescribed(f, index, direction)
  THEN f.prescribedValues[index][direction]
  ELSE at(f, index)[direction]

prescribedValue(f, index, direction) ==
  IF isPrescribed(f, index, direction)
  THEN f.prescribedValues[index][direction]
  ELSE 0

(***************************************************************************)
(* Equation numbering.                                                     *)
(***************************************************************************)
\* the two nested loops of _numberEqnums_, at flat position k = i*dim + j,
\* carrying the table filled so far and the running count
RECURSIVE numberLoop(_, _, _, _)
numberLoop(f, k, eqnums, count) ==
  IF k >= nfens(f) * dim(f)
  THEN [f EXCEPT !.eqnums = eqnums, !.neqns = count]
  ELSE LET i == k \div dim(f)
           j == k % dim(f)
       IN IF ~isPrescribed(f, i, j)
          THEN numberLoop(f, k + 1, [eqnums EXCEPT ![i][j] = count], count + 1)
          ELSE numberLoop(f, k + 1, eqnums, count)

numberEqnums(f) ==
  numberLoop(f, 0, array2d(nfens(f), dim(f), INVALID_EQUATION_NUM), 0)

\* numbering as it would be if every demand numbered the field anew
ensureNumberedAnew(f) == numberEqnums(f)

\* if (!this._eqnums) this._numberEqnums_();
ensureNumbered(f) == IF f.eqnums = Null THEN numberEqnums(f) ELSE f

neqns(f) ==
  LET g == ensureNumbered(f)
  IN Outcome(g, FALSE, g.neqns)

\* eqnum as it would be if a direction out of range gave the invalid marker
\* instead of an error
eqnumNoDirectionError(f, index, direction) ==
  LET g == ensureNumbered(f)
  IN IF index < 0 \/ index >= nfens(g) THEN Outcome(g, TRUE, Thrown)
     ELSE IF direction < 0 \/ direction >= dim(g)
     THEN Outcome(g, FALSE, INVALID_EQUATION_NUM)
     ELSE Outcome(g, FALSE, g.eqnums[index][direction])

eqnum(f, index, direction) ==
  LET g == ensureNumbered(f)
  IN IF index < 0 \/ index >= nfens(g) THEN Outcome(g, TRUE, Thrown)
     ELSE IF direction < 0 \/ direction >= dim(g) THEN Outcome(g, TRUE, Thrown)
     ELSE Outcome(g, FALSE, g.eqnums[index][direction])

(***************************************************************************)
(* Prescribed values.                                                      *)
(***************************************************************************)
\* this._prescribed[index][dir] = true throws a TypeError, before anything is
\* written, when the table is null or has no row index
setPrescribedValue_(f, index, dir, val) ==
  IF f.prescribed = Null \/ index < 0 \/ index >= nfens(f)
  THEN Outcome(f, TRUE, Thrown)
  ELSE Outcome([f EXCEPT !.prescribed[index][dir] = TRUE,
                         !.prescribedValues[index][dir] = val,
                         !.values = setAtDir_(f.values, index, dir, val)],
               FALSE, Undefined)

(***************************************************************************)
(* Scatter.                                                                *)
(***************************************************************************)
\* core.utils check.isVectorOfDimension(vec, n), on an array of numbers
isVectorOfDimension(vec, n) == Len(vec) = n

\* the two nested loops of scatterSystemVector_, at flat position k
RECURSIVE scatterLoop(_, _, _)
scatterLoop(f, vec, k) ==
  IF k >= nfens(f) * dim(f) THEN f
  ELSE LET i == k \div dim(f)
           j == k % dim(f)
           en == f.eqnums[i][j]
       IN IF en /= INVALID_EQUATION_NUM
          THEN scatterLoop([f EXCEPT !.values = setAtDir_(f.values, i, j, vec[en + 1])],
                           vec, k + 1)
          ELSE scatterLoop(f, vec, k + 1)

\* scatterSystemVector_ as it would be if only a vector that is too short
\* were refused
scatterAcceptsLongerVector(f, vec) ==
  LET g == neqns(f).f
  IN IF Len(vec) < g.neqns
     THEN Outcome(g, TRUE, Thrown)
     ELSE Outcome(scatterLoop(ensureNumbered(g), vec, 0), FALSE, Undefined)

scatterSystemVector_(f, vec) ==
  LET g == neqns(f).f
  IN IF ~isVectorOfDimension(vec, g.neqns)
     THEN Outcome(g, TRUE, Thrown)
     ELSE Outcome(scatterLoop(ensureNumbered(g), vec, 0), FALSE, Undefined)

(***************************************************************************)
(* Gather.                                                                 *)
(***************************************************************************)
\* the inner loop as it would be if every pass asked for direction 0
RECURSIVE gatherEqnumsDirsAlwaysFirst(_, _, _, _)
gatherEqnumsDirsAlwaysFirst(f, fenid, i, vec) ==
  IF i >= dim(f) THEN Outcome(f, FALSE, vec)
  ELSE LET c == eqnum(f, fenid, 0)
       IN IF c.threw THEN c
          ELSE gatherEqnumsDirsAlwaysFirst(c.f, fenid, i + 1, Append(vec, c.ret))

\* the inner loop of gatherEqnumsVector for node fenid, from direction i on:
\* each eqnum call may number the field and may throw
RECURSIVE gatherEqnumsDirs(_, _, _, _)
gatherEqnumsDirs(f, fenid, i, vec) ==
  IF i >= dim(f) THEN Outcome(f, FALSE, vec)
  ELSE LET c == eqnum(f, fenid, i)
       IN IF c.threw THEN c
          ELSE gatherEqnumsDirs(c.f, fenid, i + 1, Append(vec, c.ret))

\* conn.forEach of gatherEqnumsVector, from position k of conn on
RECURSIVE gatherEqnumsLoop(_, _, _, _)
gatherEqnumsLoop(f, conn, k, vec) ==
  IF k > Len(conn) THEN Outcome(f, FALSE, vec)
  ELSE LET c == gatherEqnumsDirs(f, conn[k], 0, vec)
       IN IF c.threw THEN c
          ELSE gatherEqnumsLoop(c.f, conn, k + 1, c.ret)

gatherEqnumsVector(f, conn) == gatherEqnumsLoop(f, conn, 1, <<>>)

\* this.prescribedValue(idx, dir) as gatherPrescirbedValues calls it, idx
\* not checked: without tables it is 0 for any idx; with tables a row that
\* does not exist makes this._prescribed[idx][dir] throw a TypeError
prescribedValueAt(f, idx, dir) ==
  IF f.prescribed = Null THEN Outcome(f, FALSE, 0)
  ELSE IF idx < 0 \/ idx >= nfens(f) THEN Outcome(f, TRUE, Thrown)
  ELSE Outcome(f, FALSE, prescribedValue(f, idx, dir))

\* the inner loop of gatherPrescirbedValues for node idx, from dir on
RECURSIVE gatherPrescribedDirs(_, _, _, _)
gatherPrescribedDirs(f, idx, dir, vec) ==
  IF dir >= dim(f) THEN Outcome(f, FALSE, vec)
  ELSE LET c == prescribedValueAt(f, idx, dir)
       IN IF c.threw THEN c
          ELSE gatherPrescribedDirs(f, idx, dir + 1, Append(vec, c.ret))

\* conn.forEach of gatherPrescirbedValues, from position k of conn on
RECURSIVE gatherPrescribedLoop(_, _, _, _)
gatherPrescribedLoop(f, conn, k, vec) ==
  IF k > Len(conn) THEN Outcome(f, FALSE, vec)
  ELSE LET c == gatherPrescribedDirs(f, conn[k], 0, vec)
       IN IF c.threw THEN c
          ELSE gatherPrescribedLoop(f, conn, k + 1, c.ret)

gatherPrescirbedValues(f, conn) == gatherPrescribedLoop(f, conn, 1, <<>>)

\* mat[i] = this._values.get(idx), for the nodes of conn that the field has
gatherValuesMatrix(f, conn) ==
  Outcome(f, FALSE, [i \in 1..Len(conn) |-> get(f.values, conn[i])])

(***************************************************************************)
(* Point-wise operations.  A callback handed to map is a record naming     *)
(* what it computes from a node's vector vec and the node's index i.       *)
(***************************************************************************)
\* what stands where there is no field
NoField ==
  [ nfens |-> 0, dim |-> 0, values |-> Null, prescribed |-> Null,
    prescribedValues |-> Null, eqnums |-> Null, neqns |-> -1 ]

\* a JS value handed to _bop, tagged with what check.number, check.instance
\* and check.array tell apart: t is "number" (num), "field" (fld), "array"
\* (arr) or anything else
Operand(t, num, fld, arr) == [t |-> t, num |-> num, fld |-> fld, arr |-> arr]

\* the functions (a, b) -> number that add, sub, mul, div hand to _bop, and
\* one a caller hands to bop: (a, b) -> b
bopFns == {"add", "sub", "mul", "div", "second"}

\* bopFn(a, b) on integers a, b >= 0 (the values the fields here hold); a
\* quotient that is no integer (also x/0) is kept as NotInteger
applyBopFn(bopFn, a, b) ==
  CASE bopFn = "second" -> b
    [] bopFn = "add" -> a + b
    [] bopFn = "sub" -> a - b
    [] bopFn = "mul" -> a * b
    [] bopFn = "div" -> IF b > 0 /\ a % b = 0 THEN a \div b ELSE NotInteger

\* fn(vec, i): the three callbacks _bop builds around its operand other,
\* and a caller's own ("negate")
applyCallback(fn, vec, i) ==
  CASE fn.kind = "number" ->
         [j \in DOMAIN vec |-> applyBopFn(fn.bopFn, vec[j], fn.other.num)]
    [] fn.kind = "field" ->
         [j \in DOMAIN vec |->
            applyBopFn(fn.bopFn, vec[j], at(fn.other.fld, i)[j])]
    [] fn.kind = "array" ->
         [j \in DOMAIN vec |-> applyBopFn(fn.bopFn, vec[j], fn.other.arr[j + 1])]
    [] fn.kind = "negate" ->
         [j \in DOMAIN vec |-> 0 - vec[j]]

\* map as it would be if the new field were a copy of this one with the
\* mapped values, its tables and numbering kept
mapKeepsBoundaryConditions(f, fn) ==
  Outcome(f, FALSE,
          [f EXCEPT !.values =
             [i \in DOMAIN f.values |-> applyCallback(fn, f.values[i], i)]])

\* this._values.map(fn), then new Field({pointset: newPointset}): the new
\* field gets neither prescribed tables nor a numbering
map(f, fn) ==
  Outcome(f, FALSE,
          Field([i \in DOMAIN f.values |-> applyCallback(fn, f.values[i], i)],
                FALSE))

\* _bop as it would be if a field operand were checked for its dimension
\* only, not for its number of nodes
_bopNoNfensCheck(f, other, bopFn) ==
  IF other.t = "number"
  THEN map(f, [kind |-> "number", bopFn |-> bopFn, other |-> other])
  ELSE IF other.t = "field" /\ dim(other.fld) = dim(f)
  THEN map(f, [kind |-> "field", bopFn |-> bopFn, other |-> other])
  ELSE IF other.t = "array" /\ Len(other.arr) = dim(f)
  THEN map(f, [kind |-> "array", bopFn |-> bopFn, other |-> other])
  ELSE Outcome(f, TRUE, Thrown)

\* other is a tagged JS value (see Operand): check.number,
\* check.instance(other, Field) and check.array read the tag
_bop(f, other, bopFn) ==
  IF other.t = "number"
  THEN map(f, [kind |-> "number", bopFn |-> bopFn, other |-> other])
  ELSE IF other.t = "field" /\ dim(other.fld) = dim(f) /\ nfens(other.fld) = nfens(f)
  THEN map(f, [kind |-> "field", bopFn |-> bopFn, other |-> other])
  ELSE IF other.t = "array" /\ Len(other.arr) = dim(f)
  THEN map(f, [kind |-> "array", bopFn |-> bopFn, other |-> other])
  ELSE Outcome(f, TRUE, Thrown)

(***************************************************************************)
(* clone.  A table is a JS array: two fields that hold the same array see  *)
(* each other's writes into it.  clone gives the new field and the names   *)
(* of the tables it holds in common with the field it was cloned from.     *)
(***************************************************************************)
\* the tables written in place: _values by setAtDir_, _prescribed and
\* _prescribedValues by setPrescribedValue_
TablesWrittenInPlace == {"values", "prescribed", "prescribedValues"}

\* clone as it would be if the prescribed tables were handed over without
\* cloneDeep
cloneWithoutCloneDeep(f) ==
  LET newField == Field(f.values, FALSE)
  IN [ fld |-> [newField EXCEPT !.neqns = f.neqns,
                                !.eqnums = f.eqnums,
                                !.prescribed = f.prescribed,
                                !.prescribedValues = f.prescribedValues],
       shared |-> IF f.prescribed = Null THEN {}
                  ELSE {"prescribed", "prescribedValues"} ]

\* the point set is cloned (twice: by clone and by the constructor), the
\* three tables are deep copies: no array is held in common
clone(f) ==
  LET newField == Field(f.values, FALSE)
  IN [ fld |-> [newField EXCEPT !.neqns = f.neqns,
                                !.eqnums = f.eqnums,
                                !.prescribed = f.prescribed,
                                !.prescribedValues = f.prescribedValues],
       shared |-> {} ]

(***************************************************************************)
(* Topology (geometry.topology): the cells of the top dimension, as the    *)
(* connectivity list that built it.  A connectivity list is a sequence of  *)
(* rows, a row a sequence of node indices.                                 *)
(***************************************************************************)
\* undefined where a row is looked for: conn[idx] for idx out of range (no
\* row of a connectivity list here is empty)
MissingRow == <<>>

Topology(cells, D) == [dim |-> D, cells |-> cells]

\* what stands where there is no Topology
NoTopology == Topology(<<>>, -1)

\* hypercube(conn, dim): fails if a row is missing, if the rows have
\* inconsistent length or if a row holds a negative index
hypercubeAcceptsAnyRows(cells, D) ==
  [threw |-> FALSE, topology |-> Topology(cells, D)]

hypercube(cells, D) ==
  IF \E k \in 1..Len(cells) :
       \/ cells[k] = MissingRow
       \/ Len(cells[k]) /= Len(cells[1])
       \/ \E n \in 1..Len(cells[k]) : cells[k][n] < 0
  THEN [threw |-> TRUE, topology |-> NoTopology]
  ELSE [threw |-> FALSE, topology |-> Topology(cells, D)]

getDim(t) == t.dim

getMaxCells(t) == t.cells

\* the number of cells of the top dimension
getNumOfMaxCells(t) == Len(t.cells)

\* the size of the cells of the top dimension
getMaxCellSize(t) == IF t.cells = <<>> THEN 0 ELSE Len(t.cells[1])

(***************************************************************************)
(* GCellSet and its concrete types.  The class of a cell set (what its     *)
(* prototype chain answers to type, dim and cellSize) is its type.         *)
(***************************************************************************)
\* the classes that implement cellSize, type, subset, bfun and bfundpar
ConcreteTypes == {"L2", "Q4"}

\* the class a constructor call is made for: one of the concrete types or
\* the exported Manifold2GCellSet, which implements dim only
CellTypes == ConcreteTypes \cup {"Manifold2GCellSet"}

\* Manifold1GCellSet.prototype.dim, Manifold2GCellSet.prototype.dim
GCellSet_dim(type) == IF type = "L2" THEN 1 ELSE 2

\* L2.prototype.cellSize, Q4.prototype.cellSize
cellSize(type) == IF type = "L2" THEN 2 ELSE 4

\* an options object: has names the properties that are assigned
Options(has, cells, topology, axisSymm, otherDimension) ==
  [has |-> has, conn |-> cells, topology |-> topology,
   axisSymm |-> axisSymm, otherDimension |-> otherDimension]

\* a cell set: its class and what the GCellSet constructor stores (the _id
\* is a fresh uuid, which nothing here reads)
CellSet(type, topology, axisSymm, otherDimension) ==
  [type |-> type, topology |-> topology, axisSymm |-> axisSymm,
   otherDimension |-> otherDimension]

\* what stands where there is no cell set
NoCellSet == CellSet("none", NoTopology, FALSE, 0)

\* what a constructor call or a method that returns a cell set leaves: the
\* cell set, or the error thrown (named after the check that throws it)
Made(cells) == [threw |-> FALSE, cs |-> cells, error |-> ""]

Failed(error) == [threw |-> TRUE, cs |-> NoCellSet, error |-> error]

\* the GCellSet constructor as it would be without the check of the
\* dimension
GCellSetNoDimCheck(type, options) ==
  IF "topology" \notin options.has THEN Failed("InvalidOption")
  ELSE IF type \notin ConcreteTypes THEN Failed("NotImplemented")
  ELSE IF getMaxCellSize(options.topology) /= cellSize(type)
  THEN Failed("CellSizeDismatch")
  ELSE Made(CellSet(type, options.topology,
                    IF "axisSymm" \in options.has THEN options.axisSymm ELSE FALSE,
                    IF "otherDimension" \in options.has
                    THEN options.otherDimension ELSE 1))

\* GCellSet.call(this, options) for this of class type: options.topology
\* must be a Topology; this.cellSize() throws for a class that does not
\* implement it; then the two checks against the topology
GCellSet(type, options) ==
  IF "topology" \notin options.has THEN Failed("InvalidOption")
  ELSE IF type \notin ConcreteTypes THEN Failed("NotImplemented")
  ELSE IF getMaxCellSize(options.topology) /= cellSize(type)
  THEN Failed("CellSizeDismatch")
  ELSE IF getDim(options.topology) /= GCellSet_dim(type)
  THEN Failed("DimDismatch")
  ELSE Made(CellSet(type, options.topology,
                    IF "axisSymm" \in options.has THEN options.axisSymm ELSE FALSE,
                    IF "otherDimension" \in options.has
                    THEN options.otherDimension ELSE 1))

\* Manifold1GCellSet(options), Manifold2GCellSet(options): GCellSet.call
Manifold1GCellSet(type, options) == GCellSet(type, options)

Manifold2GCellSet(type, options) == GCellSet(type, options)

\* new L2(options): options.conn must be there; the topology is
\* hypercube(conn, 1)
L2(options) ==
  IF "conn" \notin options.has THEN Failed("InvalidOption")
  ELSE LET h == hypercube(options.conn, 1)
       IN IF h.threw THEN Failed("InvalidTopology")
          ELSE Manifold1GCellSet("L2",
                 Options(options.has \cup {"topology"}, options.conn, h.topology,
                         options.axisSymm, options.otherDimension))

\* new Q4(options): options.conn must be there; the topology is
\* hypercube(conn, 2)
Q4(options) ==
  IF "conn" \notin options.has THEN Failed("InvalidOption")
  ELSE LET h == hypercube(options.conn, 2)
       IN IF h.threw THEN Failed("InvalidTopology")
          ELSE Manifold2GCellSet("Q4",
                 Options(options.has \cup {"topology"}, options.conn, h.topology,
                         options.axisSymm, options.otherDimension))

GCellSet_conn(cells) == getMaxCells(cells.topology)

count(cells) == getNumOfMaxCells(cells.topology)

axisSymm(cells) == cells.axisSymm

\* subset(conn, indices) as it would be if it took the rows by their position
\* in indices
subsetByPosition(cells, indices) ==
  [k \in 1..Len(indices) |->
     IF k \in 1..Len(cells) THEN cells[k] ELSE MissingRow]

\* the helper subset(conn, indices): newConn.push(conn[idx]) for each idx,
\* undefined where conn has no row idx
subset(cells, indices) ==
  [k \in 1..Len(indices) |->
     IF indices[k] \in 0..(Len(cells) - 1)
     THEN cells[indices[k] + 1] ELSE MissingRow]

L2_subset(cells, indices) ==
  L2(Options({"conn", "axisSymm", "otherDimension"},
             subset(GCellSet_conn(cells), indices), NoTopology,
             axisSymm(cells), cells.otherDimension))

Q4_subset(cells, indices) ==
  Q4(Options({"conn", "axisSymm", "otherDimension"},
             subset(GCellSet_conn(cells), indices), NoTopology,
             axisSymm(cells), cells.otherDimension))

\* cells.subset(indices), by the class of cells
GCellSet_subset(cells, indices) ==
  IF cells.type = "L2" THEN L2_subset(cells, indices)
  ELSE Q4_subset(cells, indices)

\* cells.clone(): GCellSet.prototype.clone, which neither L2 nor Q4
\* overrides, throws
GCellSet_clone(cells) == Failed("NotImplemented")

(***************************************************************************)
(* boundary.                                                               *)
(***************************************************************************)
\* the faces of one cell: the sides of a cell of dimension 2 (each node with
\* the next, the last with the first), the end points of a cell of
\* dimension 1
FacesOfCell(row, D) ==
  IF D = 2
  THEN [n \in 1..Len(row) |-> <<row[n], row[(n % Len(row)) + 1]>>]
  ELSE [n \in 1..Len(row) |-> <<row[n]>>]

\* the faces of the cells from the k-th on, in the order of the cells
RECURSIVE FacesFrom(_, _, _)
FacesFrom(cells, D, k) ==
  IF k > Len(cells) THEN <<>>
  ELSE FacesOfCell(cells[k], D) \o FacesFrom(cells, D, k + 1)

\* two faces are the same if they have the same nodes, in whatever order
SameFace(a, b) == {a[n] : n \in 1..Len(a)} = {b[n] : n \in 1..Len(b)}

\* the faces, from the k-th on, that are a face of exactly one cell
RECURSIVE FacesOfOneCell(_, _)
FacesOfOneCell(faces, k) ==
  IF k > Len(faces) THEN <<>>
  ELSE IF Cardinality({n \in 1..Len(faces) : SameFace(faces[n], faces[k])}) = 1
  THEN <<faces[k]>> \o FacesOfOneCell(faces, k + 1)
  ELSE FacesOfOneCell(faces, k + 1)

\* topology.boundary(): the Topology, one dimension lower, of the faces
\* that belong to exactly one cell
Topology_boundary(t) ==
  Topology(FacesOfOneCell(FacesFrom(t.cells, t.dim, 1), 1), t.dim - 1)

\* a Topology object read as an options object: it has none of the
\* properties conn, topology, axisSymm, otherDimension
TopologyAsOptions(t) == Options({}, <<>>, NoTopology, FALSE, 0)

\* this.boundaryGCellSetConstructor(): L2 for Q4; for L2 the name P1, which
\* nothing defines (a ReferenceError)
boundaryGCellSetConstructor(type) == IF type = "Q4" THEN "L2" ELSE "none"

\* boundary(): new C(boundaryTopology), the Topology handed over where C
\* takes its options
GCellSet_boundary(cells) ==
  LET C == boundaryGCellSetConstructor(cells.type)
      boundaryTopology == Topology_boundary(cells.topology)
  IN IF C = "L2" THEN L2(TopologyAsOptions(boundaryTopology))
     ELSE Failed("ReferenceError")

(***************************************************************************)
(* Mesh (src/src/mesh.js): a node set, held as the matrix of its           *)
(* coordinates, and a cell set.                                            *)
(***************************************************************************)
Mesh(fens, gcells) == [fens |-> fens, gcells |-> gcells]

\* what stands where there is no mesh
NoMesh == Mesh(Null, NoCellSet)

\* FeNodeSet.prototype.map(mapping): the node set of mapping(coords, i)
FeNodeSet_map(fens, mapping) ==
  [i \in DOMAIN fens |-> applyCallback(mapping, fens[i], i)]

\* Mesh.prototype.map: this._fens.map(mapping), then this._gcells.clone()
Mesh_map(mesh, mapping) ==
  LET fens == FeNodeSet_map(mesh.fens, mapping)
      gcells == GCellSet_clone(mesh.gcells)
  IN IF gcells.threw
     THEN [threw |-> TRUE, mesh |-> NoMesh, error |-> gcells.error]
     ELSE [threw |-> FALSE, mesh |-> Mesh(fens, gcells.cs), error |-> ""]

(***************************************************************************)
(* JS numbers in the shape functions: IEEE 754 doubles.  A finite double   *)
(* is sign * m * 2^e with m < 2^53; m is held as a natural number of any   *)
(* size, in limbs of four decimal digits, the lowest first (<<>> is 0), and *)
(* is kept odd so that equal numbers are equal records.  Exponents are not *)
(* bounded: the numbers here are far from overflow and underflow.          *)
(***************************************************************************)
Base == 10000

\* the limbs without zero limbs at the high end
RECURSIVE BigStrip(_)
BigStrip(a) ==
  IF a = <<>> THEN <<>>
  ELSE IF a[Len(a)] = 0 THEN BigStrip(SubSeq(a, 1, Len(a) - 1))
  ELSE a

BigLimb(a, k) == IF k \in 1..Len(a) THEN a[k] ELSE 0

\* the limbs of a number given column by column, each column with the
\* carry of the lower ones
RECURSIVE BigCarry(_, _, _)
BigCarry(cols, k, carry) ==
  IF k > Len(cols)
  THEN IF carry = 0 THEN <<>>
       ELSE <<carry % Base>> \o BigCarry(cols, k, carry \div Base)
  ELSE <<(cols[k] + carry) % Base>>
         \o BigCarry(cols, k + 1, (cols[k] + carry) \div Base)

BigMax(i, j) == IF i >= j THEN i ELSE j

BigAdd(a, b) ==
  BigStrip(BigCarry([k \in 1..BigMax(Len(a), Len(b)) |-> BigLimb(a, k) + BigLimb(b, k)],
                    1, 0))

\* a - b for a >= b, limb by limb with the borrow of the lower ones
RECURSIVE BigBorrow(_, _, _, _)
BigBorrow(a, b, k, borrow) ==
  IF k > Len(a) THEN <<>>
  ELSE LET d == a[k] - BigLimb(b, k) - borrow
       IN IF d < 0 THEN <<d + Base>> \o BigBorrow(a, b, k + 1, 1)
          ELSE <<d>> \o BigBorrow(a, b, k + 1, 0)

BigSub(a, b) == BigStrip(BigBorrow(a, b, 1, 0))

\* a < b, comparing from limb k down
RECURSIVE BigLessFrom(_, _, _)
BigLessFrom(a, b, k) ==
  IF k = 0 THEN FALSE
  ELSE IF a[k] /= b[k] THEN a[k] < b[k]
  ELSE BigLessFrom(a, b, k - 1)

BigLess(a, b) ==
  IF Len(a) /= Len(b) THEN Len(a) < Len(b) ELSE BigLessFrom(a, b, Len(a))

\* the sum of a[i] * b[k + 1 - i] from i on: column k of the product
RECURSIVE BigColumn(_, _, _, _)
BigColumn(a, b, k, i) ==
  IF i > Len(a) THEN 0
  ELSE BigLimb(a, i) * BigLimb(b, k + 1 - i) + BigColumn(a, b, k, i + 1)

BigMul(a, b) ==
  IF a = <<>> \/ b = <<>> THEN <<>>
  ELSE BigStrip(BigCarry([k \in 1..(Len(a) + Len(b) - 1) |-> BigColumn(a, b, k, 1)],
                         1, 0))

BigOdd(a) == a /= <<>> /\ a[1] % 2 = 1

\* the limbs from k up, as a number, modulo d (d < 2^17)
RECURSIVE BigRemFrom(_, _, _)
BigRemFrom(a, k, d) ==
  IF k > Len(a) THEN 0 ELSE (BigRemFrom(a, k + 1, d) * Base + a[k]) % d

\* a div d
BigDiv(a, d) ==
  BigStrip([k \in 1..Len(a) |-> (BigRemFrom(a, k + 1, d) * Base + a[k]) \div d])

BigHalf(a) == BigDiv(a, 2)

\* 2^13, the most bits moved in one step
Chunk == 8192

\* a * 2^n
RECURSIVE BigShift(_, _)
BigShift(a, n) ==
  IF n = 0 THEN a
  ELSE IF n >= 13 THEN BigShift(BigMul(a, <<Chunk>>), n - 13)
  ELSE BigShift(BigAdd(a, a), n - 1)

\* 2^53 = 9007199254740992
TwoTo53 == <<992, 5474, 1992, 9007>>

\* NaN: what arithmetic on undefined gives
NaN == [nan |-> TRUE, sign |-> 1, m |-> <<>>, e |-> 0]

Zero == [nan |-> FALSE, sign |-> 1, m |-> <<>>, e |-> 0]

\* sign * m * 2^e with the factors of two of m moved into the exponent
RECURSIVE Double(_, _, _)
Double(sign, m, e) ==
  IF m = <<>> THEN Zero
  ELSE IF BigOdd(m) THEN [nan |-> FALSE, sign |-> sign, m |-> m, e |-> e]
  ELSE IF BigRemFrom(m, 1, Chunk) = 0 THEN Double(sign, BigDiv(m, Chunk), e + 13)
  ELSE Double(sign, BigHalf(m), e + 1)

\* rounding to 53 bits, to nearest, ties to even: the bits shifted out are
\* the last one (roundBit) and whether any before it was set (sticky)
RECURSIVE RoundToDouble(_, _, _, _, _)
RoundToDouble(sign, m, e, roundBit, sticky) ==
  IF BigLess(m, TwoTo53)
  THEN IF roundBit /\ (sticky \/ BigOdd(m))
       THEN Double(sign, BigAdd(m, <<1>>), e)
       ELSE Double(sign, m, e)
  ELSE IF BigLess(m, BigMul(TwoTo53, <<Chunk>>))
  THEN RoundToDouble(sign, BigHalf(m), e + 1, BigOdd(m), sticky \/ roundBit)
  ELSE RoundToDouble(sign, BigDiv(m, Chunk), e + 13,
                     BigRemFrom(m, 1, Chunk) >= Chunk \div 2,
                     sticky \/ roundBit \/ BigRemFrom(m, 1, Chunk \div 2) /= 0)

\* -x
FNeg(x) == IF x.nan \/ x.m = <<>> THEN x ELSE [x EXCEPT !.sign = 0 - x.sign]

\* x * y
FMul(x, y) ==
  IF x.nan \/ y.nan THEN NaN
  ELSE RoundToDouble(x.sign * y.sign, BigMul(x.m, y.m), x.e + y.e, FALSE, FALSE)

\* x + y: the exact sum at the lower of the two exponents, rounded
FAdd(x, y) ==
  IF x.nan \/ y.nan THEN NaN
  ELSE LET e == IF x.e <= y.e THEN x.e ELSE y.e
           mx == BigShift(x.m, x.e - e)
           my == BigShift(y.m, y.e - e)
       IN IF x.sign = y.sign
          THEN RoundToDouble(x.sign, BigAdd(mx, my), e, FALSE, FALSE)
          ELSE IF BigLess(mx, my)
          THEN RoundToDouble(y.sign, BigSub(my, mx), e, FALSE, FALSE)
          ELSE RoundToDouble(x.sign, BigSub(mx, my), e, FALSE, FALSE)

\* x - y
FSub(x, y) == FAdd(x, FNeg(y))

\* the literals of the shape functions
One == Double(1, <<1>>, 0)

Half == Double(1, <<1>>, -1)

Quarter == Double(1, <<1>>, -2)

\* paramCoords[k], undefined beyond the end: arithmetic makes it NaN
Coord(paramCoords, k) ==
  IF k + 1 \in 1..Len(paramCoords) THEN paramCoords[k + 1] ELSE NaN

(***************************************************************************)
(* Shape functions of L2 and Q4.  A matrix is the sequence of its rows.    *)
(***************************************************************************)
Shape(mat) == [threw |-> FALSE, mat |-> mat, error |-> ""]

ShapeFailed(error) == [threw |-> TRUE, mat |-> <<>>, error |-> error]

\* assert.vectorOfDimension(D): an array of D numbers
vectorOfDimension(D, vec) ==
  Len(vec) = D /\ \A k \in 1..Len(vec) : ~vec[k].nan

_input_contract_l2_param_coords_(paramCoords) == vectorOfDimension(1, paramCoords)

L2_bfunQuarter(paramCoords) ==
  IF ~_input_contract_l2_param_coords_(paramCoords)
  THEN ShapeFailed("ContractViolation")
  ELSE LET x == Coord(paramCoords, 0)
       IN Shape(<< <<FMul(Quarter, FSub(One, x))>>,
                   <<FMul(Half, FAdd(One, x))>> >>)

L2_bfun(paramCoords) ==
  IF ~_input_contract_l2_param_coords_(paramCoords)
  THEN ShapeFailed("ContractViolation")
  ELSE LET x == Coord(paramCoords, 0)
       IN Shape(<< <<FMul(Half, FSub(One, x))>>,
                   <<FMul(Half, FAdd(One, x))>> >>)

L2_bfundpar(paramCoords) ==
  IF ~_input_contract_l2_param_coords_(paramCoords)
  THEN ShapeFailed("ContractViolation")
  ELSE Shape(<< <<FNeg(Half)>>, <<Half>> >>)

\* no contract on paramCoords: a missing coordinate is undefined
Q4_bfun(paramCoords) ==
  LET one_minus_xi == FSub(One, Coord(paramCoords, 0))
      one_plus_xi == FAdd(One, Coord(paramCoords, 0))
      one_minus_eta == FSub(One, Coord(paramCoords, 1))
      one_plus_eta == FAdd(One, Coord(paramCoords, 1))
  IN Shape(<< <<FMul(FMul(Quarter, one_minus_xi), one_minus_eta)>>,
              <<FMul(FMul(Quarter, one_plus_xi), one_minus_eta)>>,
              <<FMul(FMul(Quarter, one_plus_xi), one_plus_eta)>>,
              <<FMul(FMul(Quarter, one_minus_xi), one_plus_eta)>> >>)

Q4_bfundpar(paramCoords) ==
  LET xi == Coord(paramCoords, 0)
      eta == Coord(paramCoords, 1)
  IN Shape(<< <<FMul(FNeg(FSub(One, eta)), Quarter), FMul(FNeg(FSub(One, xi)), Quarter)>>,
              <<FMul(FSub(One, eta), Quarter), FMul(FNeg(FAdd(One, xi)), Quarter)>>,
              <<FMul(FAdd(One, eta), Quarter), FMul(FAdd(One, xi), Quarter)>>,
              <<FMul(FNeg(FAdd(One, eta)), Quarter), FMul(FSub(One, xi), Quarter)>> >>)

bfun(type, paramCoords) ==
  IF type = "L2" THEN L2_bfun(paramCoords) ELSE Q4_bfun(paramCoords)

bfundpar(type, paramCoords) ==
  IF type = "L2" THEN L2_bfundpar(paramCoords) ELSE Q4_bfundpar(paramCoords)

(***************************************************************************)
(* jacobianInDim: the jacobian method the call is handed to, by name.      *)
(***************************************************************************)
Dispatched(via) == [threw |-> FALSE, via |-> via, error |-> ""]

DispatchFailed(error) == [threw |-> TRUE, via |-> "", error |-> error]

Manifold1GCellSet_jacobianInDim(D) ==
  CASE D = 3 -> Dispatched("jacobianVolumn")
    [] D = 2 -> Dispatched("jacobianSurface")
    [] D = 1 -> Dispatched("jacobianCurve")
    [] OTHER -> DispatchFailed("WrongDimension")

Manifold2GCellSet_jacobianInDimWithCurve(D) ==
  CASE D = 3 -> Dispatched("jacobianVolumn")
    [] D = 2 -> Dispatched("jacobianSurface")
    [] D = 1 -> Dispatched("jacobianCurve")
    [] OTHER -> DispatchFailed("WrongDimension")

Manifold2GCellSet_jacobianInDim(D) ==
  CASE D = 3 -> Dispatched("jacobianVolumn")
    [] D = 2 -> Dispatched("jacobianSurface")
    [] OTHER -> DispatchFailed("WrongDimension")

jacobianInDim(type, D) ==
  IF GCellSet_dim(type) = 1 THEN Manifold1GCellSet_jacobianInDim(D)
  ELSE Manifold2GCellSet_jacobianInDim(D)

(***************************************************************************)
(* The numeric-array layer on matrices of integers: a matrix is the        *)
(* sequence of its rows.                                                   *)
(***************************************************************************)
transpose(mat) ==
  [j \in 1..Len(mat[1]) |-> [i \in 1..Len(mat) |-> mat[i][j]]]

\* a[1] * b[1] + ... + a[k] * b[k]
RECURSIVE SumOfProducts(_, _, _)
SumOfProducts(a, b, k) ==
  IF k = 0 THEN 0 ELSE SumOfProducts(a, b, k - 1) + a[k] * b[k]

\* the matrix product
mul(a, b) ==
  [i \in 1..Len(a) |->
     [j \in 1..Len(b[1]) |-> SumOfProducts(a[i], transpose(b)[j], Len(b))]]

\* dot of two matrices: the matrix product
dot(a, b) == mul(a, b)

\* dot of a matrix and a vector
dotVector(a, vec) == [i \in 1..Len(a) |-> SumOfProducts(a[i], vec, Len(vec))]

\* the Euclidean norm, of vectors whose norm is an integer
norm(vec) ==
  LET squares == SumOfProducts(vec, vec, Len(vec))
  IN CHOOSE r \in 0..squares : r * r = squares

size(mat) == <<Len(mat), Len(mat[1])>>

\* column n, counted from 1
nthColumn(mat, n) == [i \in 1..Len(mat) |-> mat[i][n]]

\* the matrix whose product with a vector is the cross product with vec
skewmat(vec) ==
  << <<0, 0 - vec[3], vec[2]>>,
     <<vec[3], 0, 0 - vec[1]>>,
     <<0 - vec[2], vec[1], 0>> >>

(***************************************************************************)
(* The numbers the Jacobians return: n * Math.PI^pi with the products kept *)
(* exact, or NaN.                                                          *)
(***************************************************************************)
Number(n) == [nan |-> FALSE, n |-> n, pi |-> 0]

NotANumber == [nan |-> TRUE, n |-> 0, pi |-> 0]

Math_PI == [nan |-> FALSE, n |-> 1, pi |-> 1]

\* a * b
Times(a, b) ==
  IF a.nan \/ b.nan THEN NotANumber
  ELSE IF a.n * b.n = 0 THEN Number(0)
  ELSE [nan |-> FALSE, n |-> a.n * b.n, pi |-> a.pi + b.pi]

\* an array where a number is expected: [] is 0, [n] is n, a longer one NaN
ArrayToNumber(array) ==
  IF Len(array) = 0 THEN Number(0)
  ELSE IF Len(array) = 1 THEN Number(array[1])
  ELSE NotANumber

(***************************************************************************)
(* The scalar Jacobians of the two manifold classes.                       *)
(***************************************************************************)
Jacobian(num) == [threw |-> FALSE, num |-> num, error |-> ""]

JacobianFailed(error) == [threw |-> TRUE, num |-> NotANumber, error |-> error]

\* this._otherDimension, a number
GCellSet_otherDimension(cells, conn, N, x) == Number(cells.otherDimension)

Manifold1GCellSet_jacobianCurve(cells, conn, N, J, x) ==
  LET vec == transpose(J)[1]
  IN Jacobian(Number(norm(vec)))

Manifold1GCellSet_jacobianSurface(cells, conn, N, J, x) ==
  IF cells.axisSymm
  THEN LET xyz == mul(transpose(N), x)[1]
       IN Jacobian(Times(Times(Times(Manifold1GCellSet_jacobianCurve(cells, conn, N, J, x).num,
                                     Number(2)), Math_PI), Number(xyz[1])))
  ELSE Jacobian(Times(Manifold1GCellSet_jacobianCurve(cells, conn, N, J, x).num,
                      GCellSet_otherDimension(cells, conn, N, x)))

Manifold1GCellSet_jacobianVolumn(cells, conn, N, J, x) ==
  IF cells.axisSymm
  THEN LET xyz == mul(transpose(N), x)[1]
       IN Jacobian(Times(Times(Times(Times(Manifold1GCellSet_jacobianCurve(cells, conn, N, J, x).num,
                                           Number(2)), Math_PI), Number(xyz[1])),
                         GCellSet_otherDimension(cells, conn, N, x)))
  ELSE Jacobian(Times(Manifold1GCellSet_jacobianCurve(cells, conn, N, J, x).num,
                      GCellSet_otherDimension(cells, conn, N, x)))

Manifold2GCellSet_jacobianSurface(cells, conn, N, J, x) ==
  LET tmp == size(J)
      sdim == tmp[1]
      ntan == tmp[2]
  IN IF ntan = 2
     THEN IF sdim = ntan
          THEN Jacobian(Number(J[1][1] * J[2][2] - J[2][1] * J[1][2]))
          ELSE Jacobian(Number(norm(dotVector(skewmat(nthColumn(J, 1)), nthColumn(J, 2)))))
     ELSE JacobianFailed("NotImplemented")

\* xyz is the 1-by-sdim matrix N^T x, and xyz[0] its row
Manifold2GCellSet_jacobianVolumn(cells, conn, N, J, x) ==
  LET surface == Manifold2GCellSet_jacobianSurface(cells, conn, N, J, x)
  IN IF surface.threw THEN surface
     ELSE IF cells.axisSymm
     THEN LET xyz == dot(transpose(N), x)
          IN Jacobian(Times(Times(Times(surface.num, Number(2)), Math_PI),
                            ArrayToNumber(xyz[1])))
     ELSE Jacobian(Times(surface.num, GCellSet_otherDimension(cells, conn, N, x)))

jacobianSurface(cells, conn, N, J, x) ==
  IF GCellSet_dim(cells.type) = 1
  THEN Manifold1GCellSet_jacobianSurface(cells, conn, N, J, x)
  ELSE Manifold2GCellSet_jacobianSurface(cells, conn, N, J, x)

jacobianVolumn(cells, conn, N, J, x) ==
  IF GCellSet_dim(cells.type) = 1
  THEN Manifold1GCellSet_jacobianVolumn(cells, conn, N, J, x)
  ELSE Manifold2GCellSet_jacobianVolumn(cells, conn, N, J, x)

\* the record of a Jacobian call: the method, the cell set it was called
\* on, its arguments, whether it threw, the number it returned
JacobianCalled(op, on, conn, N, J, x, out) ==
  [op |-> op, on |-> on, conn |-> conn, N |-> N, J |-> J, x |-> x,
   threw |-> out.threw, error |-> out.error, ret |-> out.num]

\* what jlast holds before any call
NoJacobianCall ==
  JacobianCalled("none", NoCellSet, <<>>, <<>>, <<>>, <<>>, Jacobian(Number(0)))

(***************************************************************************)
(* Mesh.prototype.subdivideQ4.  Node coordinates are integers, multiples   *)
(* of 4, so that the centers 0.25 * (...) and 0.5 * (...) are integers.    *)
(***************************************************************************)
\* the cells of dimension 1 of a topology of quadrilaterals: the sides of
\* the cells from the k-th of faces on, each unordered pair once, as first
\* seen
RECURSIVE FirstSeen(_, _)
FirstSeen(faces, k) ==
  IF k > Len(faces) THEN <<>>
  ELSE IF \E n \in 1..(k - 1) : SameFace(faces[n], faces[k])
  THEN FirstSeen(faces, k + 1)
  ELSE <<faces[k]>> \o FirstSeen(faces, k + 1)

getCellsInDim(t, D) ==
  IF D = t.dim THEN t.cells ELSE FirstSeen(FacesFrom(t.cells, t.dim, 1), 1)

\* fens.count()
FeNodeSet_count(fens) == Cardinality(DOMAIN fens)

\* fens.xyzAt(index)
xyzAt(fens, index) == fens[index]

\* fens.combineWith(added): the nodes of fens, then those of added
combineWith(fens, added) ==
  LET n == FeNodeSet_count(fens)
  IN [i \in 0..(n + Len(added) - 1) |-> IF i < n THEN fens[i] ELSE added[i - n + 1]]

Math_min(a, b) == IF a <= b THEN a ELSE b

Math_max(a, b) == IF a >= b THEN a ELSE b

\* '' + n: the decimal digits of n, as a string is its characters
RECURSIVE Decimal(_)
Decimal(n) == IF n < 10 THEN <<n>> ELSE Decimal(n \div 10) \o <<n % 10>>

hashEdge(n1, n2) == Decimal(Math_min(n1, n2)) \o Decimal(Math_max(n1, n2))

q4CellCenters(fens, q4Cells, N) ==
  [i \in 1..Len(q4Cells) |->
     LET conn == q4Cells[i]
         n1 == xyzAt(fens, conn[1])
         n2 == xyzAt(fens, conn[2])
         n3 == xyzAt(fens, conn[3])
         n4 == xyzAt(fens, conn[4])
     IN [index |-> N + i - 1,
         xy |-> <<(n1[0] + n2[0] + n3[0] + n4[0]) \div 4,
                  (n1[1] + n2[1] + n3[1] + n4[1]) \div 4>>]]

\* idx goes on from the last of q4CellCenters
l2CellCenters(fens, l2Cells, idx) ==
  [k \in 1..Len(l2Cells) |->
     LET conn == l2Cells[k]
         n1 == xyzAt(fens, conn[1])
         n2 == xyzAt(fens, conn[2])
     IN [key |-> hashEdge(conn[1], conn[2]),
         index |-> idx + k - 1,
         xy |-> <<(n1[0] + n2[0]) \div 2, (n1[1] + n2[1]) \div 2>>]]

\* l2CellCentersMap[key]: the last of the centers stored under key
l2CellCentersMap(centers, key) ==
  LET stored == {k \in 1..Len(centers) : centers[k].key = key}
  IN centers[CHOOSE k \in stored : \A other \in stored : other <= k]

\* the four quadrilaterals pushed for cell i
SubQuads(cell, centers, nCentroid) ==
  LET n1 == cell[1]
      n2 == cell[2]
      n3 == cell[3]
      n4 == cell[4]
      n12 == l2CellCentersMap(centers, hashEdge(n1, n2)).index
      n23 == l2CellCentersMap(centers, hashEdge(n2, n3)).index
      n34 == l2CellCentersMap(centers, hashEdge(n3, n4)).index
      n41 == l2CellCentersMap(centers, hashEdge(n4, n1)).index
  IN << <<n1, n12, nCentroid, n41>>,
        <<n41, nCentroid, n34, n4>>,
        <<n12, n2, n23, nCentroid>>,
        <<nCentroid, n23, n3, n34>> >>

RECURSIVE newConnFrom(_, _, _, _)
newConnFrom(q4Cells, q4Centers, centers, i) ==
  IF i > Len(q4Cells) THEN <<>>
  ELSE SubQuads(q4Cells[i], centers, q4Centers[i].index)
         \o newConnFrom(q4Cells, q4Centers, centers, i + 1)

subdivideQ4(mesh) ==
  LET fens == mesh.fens
      N == FeNodeSet_count(fens)
      topology == mesh.gcells.topology
      q4Cells == getCellsInDim(topology, 2)
      l2Cells == getCellsInDim(topology, 1)
      q4Centers == q4CellCenters(fens, q4Cells, N)
      centers == l2CellCenters(fens, l2Cells, N + Len(q4Cells))
      addedFens == [k \in 1..Len(q4Cells) |-> q4Centers[k].xy]
                     \o [k \in 1..Len(l2Cells) |-> centers[k].xy]
      newFens == combineWith(fens, [k \in 1..Len(addedFens) |->
                                      [j \in 0..1 |-> addedFens[k][j + 1]]])
      newConn == newConnFrom(q4Cells, q4Centers, centers, 1)
      newGCellSet == Q4(Options({"conn"}, newConn, NoTopology, FALSE, 0))
  IN IF newGCellSet.threw
     THEN [threw |-> TRUE, mesh |-> NoMesh, error |-> newGCellSet.error]
     ELSE [threw |-> FALSE, mesh |-> Mesh(newFens, newGCellSet.cs), error |-> ""]

\* the record of a call on a mesh: the method, the mesh it was called on,
\* whether it threw, the mesh it returned
MeshCalled(op, on, out) ==
  [op |-> op, on |-> on, threw |-> out.threw, error |-> out.error, ret |-> out.mesh]

\* what mlast holds before any call
NoMeshCall == MeshCalled("none", NoMesh, [threw |-> FALSE, mesh |-> NoMesh, error |-> ""])

(***************************************************************************)
(* Calls on cell sets.                                                     *)
(***************************************************************************)
NoOptions == Options({}, <<>>, NoTopology, FALSE, 0)

\* the arguments of a call: the options of a constructor, the indices of
\* subset, the dimension asked of jacobianInDim, the paramCoords of bfun
\* and bfundpar; what a call does not take is left empty or 0
CellArgs(options, indices, D, paramCoords) ==
  [options |-> options, indices |-> indices, dim |-> D, p |-> paramCoords]

NoCellArgs == CellArgs(NoOptions, <<>>, 0, <<>>)

\* what a call returned, where it did not throw: a cell set (cs), the name
\* of the method a dispatch ended in (via), a matrix (mat)
CellReturned(cells, via, mat) == [cs |-> cells, via |-> via, mat |-> mat]

\* the record of a call: the method, the class it was made for, its
\* arguments, whether it threw (and what), what it returned
CellCalled(op, type, args, threw, error, ret) ==
  [op |-> op, type |-> type, args |-> args, threw |-> threw, error |-> error,
   ret |-> ret]

\* what cslast holds before any call
NoCellCall == CellCalled("none", "none", NoCellArgs, FALSE, "",
                         CellReturned(NoCellSet, "", <<>>))

(***************************************************************************)
(* Inputs.                                                                 *)
(***************************************************************************)
\* components per node of the fields built
Dims == {1, 2}

\* the values handed to setPrescribedValue_
PrescribedVals == {1, 2}

\* the first entry of the vectors handed to scatterSystemVector_
VecBases == {5}

\* the prescribed components of a field
PrescribedSet(f) ==
  {c \in (0..(nfens(f) - 1)) \X (0..(dim(f) - 1)) : isPrescribed(f, c[1], c[2])}

\* the vector base, base+1, ..., base+len-1: its entries are all different
Ramp(base, len) == [k \in 1..len |-> base + k - 1]

\* node indices and directions handed to a field, one out of range each side
IndexArgs(f) == -1..nfens(f)

\* node indices handed to setPrescribedValue_, one out of range
SetIndexArgs(f) == 0..nfens(f)

DirArgs(f) == -1..dim(f)

InRangeDirs(f) == 0..(dim(f) - 1)

\* element connectivities handed to the gather calls: empty, one node, two
\* nodes, a node twice, and nodes out of range
ConnSamples(f) ==
  { <<>>, <<0>>, <<nfens(f) - 1, 0>>, <<0, 0>>,
    <<nfens(f)>>, <<0, nfens(f)>>, <<-1>> }

\* the operands handed to the point-wise operations on field f, by name: a
\* number; f itself; new fields of one node more and of one component more;
\* arrays of length dim and dim+1; a string
BopOperandNames ==
  {"number", "self", "moreNodes", "moreDims", "array", "longArray", "string"}

BopOperand(f, name) ==
  CASE name = "number" -> Operand("number", 2, NoField, <<>>)
    [] name = "self" -> Operand("field", 0, f, <<>>)
    [] name = "moreNodes" ->
         Operand("field", 0, Field(array2d(nfens(f) + 1, dim(f), 1), FALSE), <<>>)
    [] name = "moreDims" ->
         Operand("field", 0, Field(array2d(nfens(f), dim(f) + 1, 1), FALSE), <<>>)
    [] name = "array" -> Operand("array", 0, NoField, Ramp(1, dim(f)))
    [] name = "longArray" -> Operand("array", 0, NoField, Ramp(1, dim(f) + 1))
    [] name = "string" -> Operand("string", 0, NoField, <<>>)

\* the arguments of a call: node index and direction (idx, dir), a value
\* (val), a vector or connectivity (vec), an operand (other), a function's
\* name (fn); what a call does not take is left at 0, <<>>, "none", ""
Args(idx, dir, val, vec, other, fn) ==
  [idx |-> idx, dir |-> dir, val |-> val, vec |-> vec, other |-> other, fn |-> fn]

NoOperand == Operand("none", 0, NoField, <<>>)

NoArgs == Args(0, 0, 0, <<>>, NoOperand, "")

\* what a call returned, by kind: a number (num), a vector (vec), a matrix
\* (mat), a list of loads (loads), a field (fld); nothing for a call that threw or returns undefined
Returned(kind, out) ==
  [ num |-> IF kind = "num" /\ ~out.threw THEN out.ret ELSE 0,
    vec |-> IF kind = "vec" /\ ~out.threw THEN out.ret ELSE <<>>,
    mat |-> IF kind = "mat" /\ ~out.threw THEN out.ret ELSE <<>>,
    loads |-> IF kind = "loads" /\ ~out.threw THEN out.ret ELSE <<>>,
    fld |-> IF kind = "fld" /\ ~out.threw THEN out.ret ELSE NoField ]

(***************************************************************************)
(* Nodal loads.                                                            *)
(***************************************************************************)
\* a value of the options of a NodalLoad: undefined, a number, an array
Value(kind, num, arr) == [kind |-> kind, num |-> num, arr |-> arr]

Absent == Value("undefined", NotInteger, <<>>)

NumberValue(n) == Value("number", n, <<>>)

ArrayValue(arr) == Value("array", 0, arr)

\* a || b: a unless it is undefined or 0
OrElse(a, b) ==
  IF a.kind = "array" \/ (a.kind = "number" /\ a.num /= 0) THEN a ELSE b

\* if (!check.array(x)) x = [x];
InArray(v) == IF v.kind = "array" THEN v.arr ELSE <<v.num>>

NodalLoad(options) ==
  [ ids |-> InArray(OrElse(options.ids, options.id)),
    dirs |-> InArray(OrElse(options.dirs, options.dir)),
    magns |-> InArray(OrElse(options.magns, options.magn)) ]

\* what nl holds where no NodalLoad is: one with no id, direction, magnitude
NoNodalLoad == [ids |-> <<>>, dirs |-> <<>>, magns |-> <<>>]

ElementLoad(value, en) == [value |-> value, eqnum |-> en]

\* this._magns[j]: undefined past the end, kept as NotInteger
magnAt(load, j) ==
  IF j < Len(load.magns) THEN load.magns[j + 1] ELSE NotInteger

\* the two nested loops of loads, at flat position k = i*ndirs + j, carrying
\* the field (u.eqnum may number it) and the loads pushed so far
RECURSIVE loadsLoop(_, _, _, _)
loadsLoop(load, f, k, loads) ==
  LET nids == Len(load.ids)
      ndirs == Len(load.dirs)
  IN IF k >= nids * ndirs THEN Outcome(f, FALSE, loads)
     ELSE LET id == load.ids[(k \div ndirs) + 1]
              dir == load.dirs[(k % ndirs) + 1]
              en == eqnum(f, id, dir)
          IN IF en.threw THEN en
             ELSE loadsLoop(load, en.f, k + 1,
                            Append(loads, ElementLoad(magnAt(load, k % ndirs), en.ret)))

\* NodalLoad.prototype.loads
loads(load, f) == loadsLoop(load, f, 0, <<>>)

(***************************************************************************)
(* The calls.                                                              *)
(***************************************************************************)
\* the record of a call: the field it was made on ("u" or "w"), the method,
\* its arguments, whether it threw and what it returned (of the kind given)
Called(on, op, args, kind, out) ==
  [on |-> on, op |-> op, args |-> args, threw |-> out.threw,
   ret |-> Returned(kind, out)]

\* a call on the field u: u becomes what the call leaves, last records the
\* call
Call(op, args, kind, out) ==
  /\ u' = out.f
  /\ last' = Called("u", op, args, kind, out)
  /\ UNCHANGED <<w, shared, cs, cslast, jlast, ms, mlast, nl>>

CallNeqns == Call("neqns", NoArgs, "num", neqns(u))

CallEqnum ==
  \E i \in IndexArgs(u), j \in DirArgs(u) :
    Call("eqnum", Args(i, j, 0, <<>>, NoOperand, ""), "num", eqnum(u, i, j))

CallSetPrescribedValue ==
  \E i \in SetIndexArgs(u), j \in InRangeDirs(u), v \in PrescribedVals :
    /\ \/ Cardinality(PrescribedSet(u)) < MaxPrescribed
       \/ <<i, j>> \in PrescribedSet(u)
    /\ Call("setPrescribedValue_", Args(i, j, v, <<>>, NoOperand, ""), "none",
            setPrescribedValue_(u, i, j, v))

CallScatterSystemVector ==
  \E base \in VecBases, len \in 0..(nfens(u) * dim(u) + 1) :
    Call("scatterSystemVector_", Args(0, 0, 0, Ramp(base, len), NoOperand, ""),
         "none", scatterSystemVector_(u, Ramp(base, len)))

CallGatherEqnumsVector ==
  \E conn \in ConnSamples(u) :
    Call("gatherEqnumsVector", Args(0, 0, 0, conn, NoOperand, ""), "vec",
         gatherEqnumsVector(u, conn))

CallGatherPrescirbedValues ==
  \E conn \in ConnSamples(u) :
    Call("gatherPrescirbedValues", Args(0, 0, 0, conn, NoOperand, ""), "vec",
         gatherPrescirbedValues(u, conn))

\* add, sub, mul, div and bop: each is _bop with its function
CallBop ==
  \E name \in BopOperandNames, bopFn \in bopFns :
    LET other == BopOperand(u, name)
    IN Call("_bop", Args(0, 0, 0, <<>>, other, bopFn), "fld",
            _bop(u, other, bopFn))

\* the argument of map: the mapping that negates
MapArgs == Args(0, 0, 0, <<>>, NoOperand, "negate")

CallMap == Call("map", MapArgs, "fld", map(u, [kind |-> "negate"]))

\* what last holds before any call: the field was constructed
Constructed ==
  Called("u", "new", NoArgs, "none", Outcome(NoField, FALSE, Undefined))

\* a field alone: no cell set and no mesh is constructed, no call made on one
Init ==
  /\ \E n \in 1..MaxNfens, d \in Dims, withEbcs \in BOOLEAN :
       u = Field(array2d(n, d, 0), withEbcs)
  /\ last = Constructed
  /\ w = NoField
  /\ shared = {}
  /\ cs = Null
  /\ cslast = Null
  /\ jlast = Null
  /\ ms = Null
  /\ mlast = Null
  /\ nl = NoNodalLoad

\* numbering, prescribed values, gather and scatter
Next ==
  \/ CallNeqns
  \/ CallEqnum
  \/ CallSetPrescribedValue
  \/ CallScatterSystemVector
  \/ CallGatherEqnumsVector
  \/ CallGatherPrescirbedValues

Spec == Init /\ [][Next]_vars

\* the point-wise operations, on a field with any prescribed components,
\* numbered or not, before or after they were prescribed
NextOps ==
  \/ CallNeqns
  \/ CallSetPrescribedValue
  \/ CallBop
  \/ CallMap

SpecOps == Init /\ [][NextOps]_vars

\* the connectivities of ConnSamples whose nodes the field has
InRangeConns(f) ==
  {conn \in ConnSamples(f) :
     \A k \in 1..Len(conn) : conn[k] >= 0 /\ conn[k] < nfens(f)}

CallGatherValuesMatrix ==
  \E conn \in InRangeConns(u) :
    Call("gatherValuesMatrix", Args(0, 0, 0, conn, NoOperand, ""), "mat",
         gatherValuesMatrix(u, conn))

\* setPrescribedValue_(i, j, 1): the numbering depends on which components
\* are prescribed, not on the values prescribed
CallPrescribe ==
  \E i \in SetIndexArgs(u), j \in InRangeDirs(u) :
    /\ \/ Cardinality(PrescribedSet(u)) < MaxPrescribed
       \/ <<i, j>> \in PrescribedSet(u)
    /\ Call("setPrescribedValue_", Args(i, j, 1, <<>>, NoOperand, ""), "none",
            setPrescribedValue_(u, i, j, 1))

\* the calls that demand or read the numbering, and the one that changes the
\* prescribed state
NextNumbering ==
  \/ CallNeqns
  \/ CallEqnum
  \/ CallPrescribe
  \/ CallScatterSystemVector
  \/ CallGatherEqnumsVector
  \/ CallGatherValuesMatrix
  \/ CallGatherPrescirbedValues

SpecNumbering == Init /\ [][NextNumbering]_vars

(***************************************************************************)
(* A nodal load nl and the field u it is applied to.                       *)
(***************************************************************************)
\* nodes, directions and magnitudes of the loads, singular (a number) or
\* plural (an array), in and out of the range of field f
LoadIds(f) ==
  {NumberValue(0), NumberValue(nfens(f)), ArrayValue(<<>>), ArrayValue(<<0>>),
   ArrayValue(<<nfens(f) - 1, 0>>), ArrayValue(<<0, -1>>)}

LoadDirs(f) ==
  {NumberValue(0), NumberValue(dim(f)), ArrayValue(<<>>),
   ArrayValue(<<dim(f) - 1, 0>>)}

LoadMagns == {NumberValue(0), NumberValue(3), ArrayValue(<<3, 4>>)}

\* options naming each of the three one way: ids or id, dirs or dir, magns
\* or magn
LoadOptions(ids, dirs, magns) ==
  [ ids |-> IF ids.kind = "array" THEN ids ELSE Absent,
    id |-> IF ids.kind = "array" THEN Absent ELSE ids,
    dirs |-> IF dirs.kind = "array" THEN dirs ELSE Absent,
    dir |-> IF dirs.kind = "array" THEN Absent ELSE dirs,
    magns |-> IF magns.kind = "array" THEN magns ELSE Absent,
    magn |-> IF magns.kind = "array" THEN Absent ELSE magns ]

InitLoads ==
  /\ \E n \in 1..MaxNfens, d \in Dims, withEbcs \in BOOLEAN :
       u = Field(array2d(n, d, 0), withEbcs)
  /\ last = Constructed
  /\ w = NoField
  /\ shared = {}
  /\ cs = Null
  /\ cslast = Null
  /\ jlast = Null
  /\ ms = Null
  /\ mlast = Null
  /\ \E ids \in LoadIds(u), dirs \in LoadDirs(u), magns \in LoadMagns :
       nl = NodalLoad(LoadOptions(ids, dirs, magns))

\* nl.loads(u)
CallLoads == Call("loads", NoArgs, "loads", loads(nl, u))

NextLoads ==
  \/ CallNeqns
  \/ CallPrescribe
  \/ CallLoads

SpecLoads == InitLoads /\ [][NextLoads]_vars

(***************************************************************************)
(* A field and its clone: u, and w once u.clone() was called.              *)
(***************************************************************************)
\* nodes and components per node of the fields cloned
CloneShapes == {<<1, 1>>, <<2, 1>>, <<1, 2>>}

InitClone ==
  /\ \E shape \in CloneShapes, withEbcs \in BOOLEAN :
       u = Field(array2d(shape[1], shape[2], 0), withEbcs)
  /\ last = Constructed
  /\ w = NoField
  /\ shared = {}
  /\ cs = Null
  /\ cslast = Null
  /\ jlast = Null
  /\ ms = Null
  /\ mlast = Null
  /\ nl = NoNodalLoad

\* the fields there are
Fields == IF w = NoField THEN {"u"} ELSE {"u", "w"}

Target(on) == IF on = "u" THEN u ELSE w

\* what the field other holds after a call left the field f as it is now:
\* the tables the two hold in common are f's
WriteThrough(f, other) ==
  [ other EXCEPT
      !.values = IF "values" \in shared THEN f.values ELSE @,
      !.prescribed = IF "prescribed" \in shared THEN f.prescribed ELSE @,
      !.prescribedValues =
         IF "prescribedValues" \in shared THEN f.prescribedValues ELSE @ ]

\* a call on one of the two fields
CallOn(on, op, args, kind, out) ==
  /\ u' = IF on = "u" THEN out.f ELSE WriteThrough(out.f, u)
  /\ w' = IF on = "w" THEN out.f ELSE WriteThrough(out.f, w)
  /\ last' = Called(on, op, args, kind, out)
  /\ UNCHANGED <<shared, cs, cslast, jlast, ms, mlast, nl>>

CallClone ==
  LET c == clone(u)
  IN /\ w' = c.fld
     /\ shared' = c.shared
     /\ last' = Called("u", "clone", NoArgs, "fld", Outcome(u, FALSE, c.fld))
     /\ UNCHANGED <<u, cs, cslast, jlast, ms, mlast, nl>>

CallOnNeqns ==
  \E on \in Fields : CallOn(on, "neqns", NoArgs, "num", neqns(Target(on)))

CallOnSetPrescribedValue ==
  \E on \in Fields :
    LET f == Target(on)
    IN \E i \in 0..(nfens(f) - 1), j \in InRangeDirs(f), val \in PrescribedVals :
         /\ \/ Cardinality(PrescribedSet(f)) < MaxPrescribed
            \/ <<i, j>> \in PrescribedSet(f)
         /\ CallOn(on, "setPrescribedValue_", Args(i, j, val, <<>>, NoOperand, ""),
                   "none", setPrescribedValue_(f, i, j, val))

CallOnScatterSystemVector ==
  \E on \in Fields, base \in VecBases :
    LET f == Target(on)
        vec == Ramp(base, neqns(f).ret)
    IN CallOn(on, "scatterSystemVector_", Args(0, 0, 0, vec, NoOperand, ""),
              "none", scatterSystemVector_(f, vec))

NextClone ==
  \/ CallClone
  \/ CallOnNeqns
  \/ CallOnSetPrescribedValue
  \/ CallOnScatterSystemVector

SpecClone == InitClone /\ [][NextClone]_vars
(***************************************************************************)
(* Cell sets: cs is the cell set the latest constructor call gave (none if *)
(* it threw), cslast the latest call.                                      *)
(***************************************************************************)
\* connectivity lists have 1..MaxCells rows
MaxCells == 3

\* a chain of n line cells
L2Conn(n) == [k \in 1..n |-> <<k - 1, k>>]

\* a strip of n quadrilaterals, each sharing a side with the one before:
\* [0,1,2,3], [1,4,5,2], [4,6,7,5], ...
Q4Conn(n) ==
  [k \in 1..n |->
     IF k = 1 THEN <<0, 1, 2, 3>>
     ELSE IF k = 2 THEN <<1, 4, 5, 2>>
     ELSE <<2 * k - 2, 2 * k, 2 * k + 1, 2 * k - 1>>]

\* the connectivity lists handed to the constructors: well-formed ones of
\* either row size, one with a negative index
ConnLists ==
  {L2Conn(n) : n \in 1..MaxCells} \cup {Q4Conn(n) : n \in 1..MaxCells}
    \cup {<<<<0, 1>>, <<-1, 0>>>>}

\* the options handed to the constructors; otherDimension, where assigned,
\* is 2
OptionsSamples ==
  {Options(has, cells, NoTopology, ax, 2) :
     has \in SUBSET {"conn", "axisSymm", "otherDimension"},
     cells \in ConnLists, ax \in BOOLEAN}

\* the topologies handed to the GCellSet constructor: those hypercube
\* builds, in dimension 1 and 2
TopologySamples ==
  {hypercube(cells, D).topology :
     cells \in {c \in ConnLists : ~hypercube(c, 1).threw}, D \in 1..2}

\* the index lists handed to subset: one or two indices, in range or one
\* beyond either end
IndexLists(cells) ==
  LET I == -1..count(cells)
  IN {<<i>> : i \in I} \cup {<<i, j>> : i \in I, j \in I}

InitCells ==
  /\ u = NoField
  /\ last = Constructed
  /\ w = NoField
  /\ shared = {}
  /\ cs = NoCellSet
  /\ cslast = NoCellCall
  /\ jlast = NoJacobianCall
  /\ ms = NoMesh
  /\ mlast = NoMeshCall
  /\ nl = NoNodalLoad

\* new type(options), or GCellSet.call(this, options) for this of class type
New(op, type, options) ==
  IF op = "GCellSet" THEN GCellSet(type, options)
  ELSE IF type = "L2" THEN L2(options)
  ELSE Q4(options)

\* a constructor call: cs is the new cell set, or none if the call threw
Construct(op, type, options) ==
  LET made == New(op, type, options)
  IN /\ cs' = made.cs
     /\ cslast' = CellCalled(op, type, CellArgs(options, <<>>, 0, <<>>), made.threw,
                             made.error, CellReturned(made.cs, "", <<>>))
     /\ UNCHANGED <<u, last, w, shared, jlast, ms, mlast, nl>>

\* a call of a method of cs
CellCall(op, args, threw, error, ret) ==
  /\ cs /= NoCellSet
  /\ cslast' = CellCalled(op, cs.type, args, threw, error, ret)
  /\ UNCHANGED <<u, last, w, shared, cs, jlast, ms, mlast, nl>>

NewL2 == \E options \in OptionsSamples : Construct("new", "L2", options)

NewQ4 == \E options \in OptionsSamples : Construct("new", "Q4", options)

\* the options handed to the GCellSet constructor: with a topology, or
\* without one
TopologyOptions ==
  {Options(has, <<>>, topology, FALSE, 0) :
     topology \in TopologySamples, has \in SUBSET {"topology"}}

\* GCellSet.call(this, options) for this of class type
CallGCellSet ==
  \E type \in CellTypes, options \in TopologyOptions :
    Construct("GCellSet", type, options)

CallSubset ==
  \E indices \in IndexLists(cs) :
    LET made == GCellSet_subset(cs, indices)
    IN CellCall("subset", CellArgs(NoOptions, indices, 0, <<>>), made.threw,
                made.error, CellReturned(made.cs, "", <<>>))

CallBoundary ==
  LET made == GCellSet_boundary(cs)
  IN CellCall("boundary", NoCellArgs, made.threw, made.error,
              CellReturned(made.cs, "", <<>>))

CallCloneCells ==
  LET made == GCellSet_clone(cs)
  IN CellCall("clone", NoCellArgs, made.threw, made.error,
              CellReturned(made.cs, "", <<>>))

\* map on a mesh that holds cs and two nodes
CallMeshMap ==
  LET out == Mesh_map(Mesh(array2d(2, 2, 1), cs), [kind |-> "negate"])
  IN CellCall("Mesh.map", NoCellArgs, out.threw, out.error,
              CellReturned(out.mesh.gcells, "", <<>>))

NextCells ==
  \/ NewL2
  \/ NewQ4
  \/ CallGCellSet
  \/ CallSubset
  \/ CallBoundary
  \/ CallCloneCells
  \/ CallMeshMap

SpecCells == InitCells /\ [][NextCells]_vars

(***************************************************************************)
(* Shape functions and jacobianInDim of one-cell L2 and Q4 sets.           *)
(***************************************************************************)
\* 0.1, the double nearest to it: 3602879701896397 * 2^-55
Tenth == Double(1, <<6397, 189, 8797, 3602>>, -55)

\* parametric coordinates: the ends and the middle of [-1, 1], and two
\* points between
Coords == {FNeg(One), Zero, Tenth, Half, One}

\* the paramCoords handed to bfun and bfundpar: none, one, two or three
\* coordinates
ParamCoordsSamples ==
  {<<>>} \cup {<<x>> : x \in Coords} \cup {<<x, y>> : x \in Coords, y \in Coords}
    \cup {<<x, x, x>> : x \in Coords}

\* the dimensions asked of jacobianInDim
JacobianDims == 0..4

\* the options of a set of one line cell, and of one quadrilateral
OneL2 == Options({"conn"}, L2Conn(1), NoTopology, FALSE, 0)

OneQ4 == Options({"conn"}, Q4Conn(1), NoTopology, FALSE, 0)

\* the arguments of the calls of bfun and bfundpar, and of jacobianInDim
ShapeArgs == {CellArgs(NoOptions, <<>>, 0, paramCoords) : paramCoords \in ParamCoordsSamples}

JacobianArgs == {CellArgs(NoOptions, <<>>, D, <<>>) : D \in JacobianDims}

NewShapeCells ==
  \/ Construct("new", "L2", OneL2)
  \/ Construct("new", "Q4", OneQ4)

CallBfun ==
  \E args \in ShapeArgs :
    LET out == bfun(cs.type, args.p)
    IN CellCall("bfun", args, out.threw, out.error,
                CellReturned(NoCellSet, "", out.mat))

CallBfundpar ==
  \E args \in ShapeArgs :
    LET out == bfundpar(cs.type, args.p)
    IN CellCall("bfundpar", args, out.threw, out.error,
                CellReturned(NoCellSet, "", out.mat))

CallJacobianInDim ==
  \E args \in JacobianArgs :
    LET out == jacobianInDim(cs.type, args.dim)
    IN CellCall("jacobianInDim", args, out.threw, out.error,
                CellReturned(NoCellSet, out.via, <<>>))

NextShape ==
  \/ NewShapeCells
  \/ CallBfun
  \/ CallBfundpar
  \/ CallJacobianInDim

SpecShape == InitCells /\ [][NextShape]_vars

(***************************************************************************)
(* The scalar Jacobians of one-cell L2 and Q4 sets.                        *)
(***************************************************************************)
\* the options of the sets: one cell of either type, axisymmetric or not,
\* otherDimension 2 or left to its default
JacobianOptions ==
  {Options(has \cup {"conn", "axisSymm"}, cells, NoTopology, ax, 2) :
     has \in SUBSET {"otherDimension"}, cells \in {L2Conn(1), Q4Conn(1)},
     ax \in BOOLEAN}

\* values of the basis functions at a point: those at the first and at the
\* second node of the cell
NSamples(type) ==
  IF type = "L2" THEN {<< <<1>>, <<0>> >>, << <<0>>, <<1>> >>}
  ELSE {<< <<1>>, <<0>>, <<0>>, <<0>> >>, << <<0>>, <<1>>, <<0>>, <<0>> >>}

\* spatial coordinates of the nodes of the cell, in the plane
XSamples(type) ==
  IF type = "L2" THEN {<< <<0, 0>>, <<10, 0>> >>, << <<2, 1>>, <<5, 5>> >>}
  ELSE {<< <<0, 0>>, <<2, 0>>, <<2, 2>>, <<0, 2>> >>,
        << <<1, 0>>, <<3, 0>>, <<3, 4>>, <<1, 4>> >>}

\* Jacobian matrices, sdim by ntan: of a line in the plane; of a
\* quadrilateral in the plane and in space, and one with a single tangent
JSamples(type) ==
  IF type = "L2" THEN {<< <<5>>, <<0>> >>, << <<3>>, <<4>> >>}
  ELSE {<< <<1, 0>>, <<0, 1>> >>, << <<2, 1>>, <<1, 3>> >>,
        << <<1, 0>>, <<0, 2>>, <<0, 0>> >>, << <<1>>, <<1>> >>}

NewJacobianCells ==
  \E type \in ConcreteTypes, options \in JacobianOptions :
    Construct("new", type, options)

\* a Jacobian call on cs
JacobianCall(op, N, J, x, out) ==
  /\ jlast' = JacobianCalled(op, cs, GCellSet_conn(cs)[1], N, J, x, out)
  /\ UNCHANGED <<u, last, w, shared, cs, cslast, ms, mlast, nl>>

CallJacobianSurface ==
  /\ cs /= NoCellSet
  /\ \E N \in NSamples(cs.type), J \in JSamples(cs.type), x \in XSamples(cs.type) :
       JacobianCall("jacobianSurface", N, J, x,
                    jacobianSurface(cs, GCellSet_conn(cs)[1], N, J, x))

CallJacobianVolumn ==
  /\ cs /= NoCellSet
  /\ \E N \in NSamples(cs.type), J \in JSamples(cs.type), x \in XSamples(cs.type) :
       JacobianCall("jacobianVolumn", N, J, x,
                    jacobianVolumn(cs, GCellSet_conn(cs)[1], N, J, x))

NextJacobian ==
  \/ NewJacobianCells
  \/ CallJacobianSurface
  \/ CallJacobianVolumn

SpecJacobian == InitCells /\ [][NextJacobian]_vars

(***************************************************************************)
(* Meshes of quadrilaterals and their subdivision.                         *)
(***************************************************************************)
\* the number of nodes of the meshes
MeshNodes == 113

\* the nodes: node i at (4 i, 4 (3 i mod 7))
NodeSamples ==
  [i \in 0..(MeshNodes - 1) |->
     [j \in 0..1 |-> IF j = 0 THEN 4 * i ELSE 4 * ((3 * i) % 7)]]

\* quadrilaterals over the nodes, with one, two and three digit indices
QuadSamples ==
  {<<0, 1, 2, 3>>, <<1, 4, 5, 2>>, <<2, 13, 21, 3>>, <<9, 10, 99, 100>>,
   <<1, 112, 50, 51>>, <<112, 1, 80, 81>>, <<11, 12, 60, 61>>,
   <<12, 11, 70, 71>>, <<10, 11, 101, 110>>, <<1, 12, 111, 2>>}

MeshConnSamples ==
  {<<a>> : a \in QuadSamples}
    \cup {<<q[1], q[2]>> : q \in {p \in QuadSamples \X QuadSamples : p[1] /= p[2]}}

MeshSamples ==
  {Mesh(NodeSamples, Q4(Options({"conn"}, conn, NoTopology, FALSE, 0)).cs) :
     conn \in MeshConnSamples}

\* new Mesh({fens: ..., gcells: new Q4({conn: ...})})
NewMesh ==
  \E made \in MeshSamples :
    /\ ms' = made
    /\ UNCHANGED <<u, last, w, shared, cs, cslast, jlast, mlast, nl>>

\* ms.subdivideQ4()
CallSubdivideQ4 ==
  /\ ms.gcells /= NoCellSet
  /\ mlast' = MeshCalled("subdivideQ4", ms, subdivideQ4(ms))
  /\ UNCHANGED <<u, last, w, shared, cs, cslast, jlast, ms, nl>>

NextMesh == NewMesh \/ CallSubdivideQ4

SpecMesh == InitCells /\ [][NextMesh]_vars

(***************************************************************************)
(* What the claims speak of, stated without the code's loops.              *)
(***************************************************************************)
\* the node-components of a field
Components(f) == (0..(nfens(f) - 1)) \X (0..(dim(f) - 1))

\* the components that are not prescribed
FreeSet(f) == Components(f) \ PrescribedSet(f)

\* node-major, then component order
RowMajorBefore(c, e) == c[1] < e[1] \/ (c[1] = e[1] /\ c[2] < e[2])

\* how many free components come before c in that order
FreeRank(f, c) == Cardinality({e \in FreeSet(f) : RowMajorBefore(e, c)})

\* the calls that read equation numbers
NumberingReads == {"eqnum", "neqns", "gatherEqnumsVector"}

\* what reading the numbering of f gives, by neqns() and eqnum(i, j), is
\* dense, row-major over the free components, invalid on the prescribed
NumberingReadsDense(f) ==
  /\ neqns(f).ret = nfens(f) * dim(f) - Cardinality(PrescribedSet(f))
  /\ \A c \in Components(f) :
       eqnum(f, c[1], c[2]).ret =
         IF c \in PrescribedSet(f) THEN INVALID_EQUATION_NUM ELSE FreeRank(f, c)

(***************************************************************************)
(* The claims.                                                             *)
(***************************************************************************)
\* C1: whenever equation numbers have just been read (eqnum, neqns,
\* gatherEqnumsVector), after any sequence of calls, the free components
\* carry 0..neqns()-1 in node-major then component order, every prescribed
\* component carries INVALID_EQUATION_NUM, and neqns() is nfens()*dim()
\* minus the number of prescribed components.
C1_NumberingDenseWheneverRead ==
  (last.op \in NumberingReads) => NumberingReadsDense(u)

\* C2: if the numbering is cached and setPrescribedValue_(i, j, v) is then
\* called on a component that was not prescribed, the next eqnum(i, j)
\* returns the invalid marker and the next neqns() is one less than before.
C2_SetPrescribedInvalidatesCache ==
  [][ ( /\ last'.op = "setPrescribedValue_"
        /\ ~last'.threw
        /\ u.eqnums /= Null
        /\ ~isPrescribed(u, last'.args.idx, last'.args.dir) )
      => ( /\ eqnum(u', last'.args.idx, last'.args.dir).ret = INVALID_EQUATION_NUM
           /\ neqns(u').ret = neqns(u).ret - 1 ) ]_vars

\* C3: in every reachable state of a field built with ebcs, each prescribed
\* component holds its prescribed value: at(i)[j] = prescribedValue(i, j).
C3_PrescribedKeepTheirValues ==
  \A c \in PrescribedSet(u) :
    at(u, c[1])[c[2]] = prescribedValue(u, c[1], c[2])

\* the free components read back in equation-number order: entry k is the
\* value of the free component whose equation number is k-1
ReadBackFree(f) ==
  [k \in 1..neqns(f).ret |->
     {at(f, c[1])[c[2]] : c \in {e \in FreeSet(f) : eqnum(f, e[1], e[2]).ret = k - 1}}]

\* C4: after scatterSystemVector_(v) with v of length neqns(), every free
\* component (i, j) holds v[eqnum(i, j)], and the free components read back
\* in equation-number order are v exactly.
C4_ScatterRoundTrip ==
  (last.op = "scatterSystemVector_" /\ ~last.threw) =>
    LET v == last.args.vec
    IN /\ \A c \in FreeSet(u) :
            at(u, c[1])[c[2]] = v[eqnum(u, c[1], c[2]).ret + 1]
       /\ ReadBackFree(u) = [k \in 1..Len(v) |-> {v[k]}]

\* the first half of C4 alone, which a stale numbering does not break
C4_FreeComponentsHoldTheirEntry ==
  (last.op = "scatterSystemVector_" /\ ~last.threw) =>
    \A c \in FreeSet(u) :
      at(u, c[1])[c[2]] = last.args.vec[eqnum(u, c[1], c[2]).ret + 1]
\* C5: scatterSystemVector_(vec) throws exactly when vec's length differs
\* from neqns(), and a call that throws changes no per-node value.
C5_ScatterRejectsWrongLength ==
  [][ (last'.op = "scatterSystemVector_") =>
        ( /\ last'.threw <=> (Len(last'.args.vec) /= neqns(u).ret)
          /\ last'.threw => (u'.values = u.values) ) ]_vars

\* a scatter with a non-empty vector has thrown on a field that holds
\* values other than 0
C5_Witness ==
  /\ last.op = "scatterSystemVector_"
  /\ last.threw
  /\ Len(last.args.vec) > 0
  /\ \E c \in Components(u) : at(u, c[1])[c[2]] /= 0

\* the numbering of g is the one the prescribed table of g determines
FreshNumbering(g) ==
  /\ g.eqnums /= Null
  /\ g.neqns = Cardinality(FreeSet(g))
  /\ \A c \in Components(g) :
       g.eqnums[c[1]][c[2]] =
         IF c \in PrescribedSet(g) THEN INVALID_EQUATION_NUM ELSE FreeRank(g, c)

\* C6: eqnum(index, direction) throws exactly when index is outside
\* 0..nfens()-1 or direction outside 0..dim()-1; otherwise it returns the
\* table entry; a field with no cached numbering is numbered first, and one
\* with a cached numbering is left as it is.
C6_EqnumChecksBoundsAndNumbers ==
  [][ (last'.op = "eqnum") =>
        LET i == last'.args.idx
            j == last'.args.dir
        IN /\ last'.threw <=>
                (i < 0 \/ i >= nfens(u) \/ j < 0 \/ j >= dim(u))
           /\ ~last'.threw => (last'.ret.num = u'.eqnums[i][j])
           /\ (u.eqnums /= Null) => (u' = u)
           /\ (u.eqnums = Null) =>
                ( /\ FreshNumbering(u')
                  /\ [u' EXCEPT !.eqnums = Null, !.neqns = -1] = u ) ]_vars

\* eqnum has thrown for a node in range and a direction out of range, on a
\* field it has numbered
C6_Witness ==
  /\ last.op = "eqnum"
  /\ last.threw
  /\ last.args.idx = nfens(u) - 1
  /\ last.args.dir = dim(u)
  /\ u.eqnums /= Null

\* C7: gatherEqnumsVector(conn) returns a vector of length dim()*conn.length
\* whose entry at position k*dim()+d is eqnum(conn[k], d), for every
\* position k of conn and direction d, repeated nodes included.
C7_GatherEqnumsLayout ==
  (last.op = "gatherEqnumsVector" /\ ~last.threw) =>
    LET conn == last.args.vec
        vec == last.ret.vec
    IN /\ Len(vec) = dim(u) * Len(conn)
       /\ \A k \in 0..(Len(conn) - 1), d \in 0..(dim(u) - 1) :
            vec[k * dim(u) + d + 1] = eqnum(u, conn[k + 1], d).ret

\* a gather over two nodes of a field with two components per node, one of
\* the gathered components prescribed
C7_Witness ==
  /\ last.op = "gatherEqnumsVector"
  /\ ~last.threw
  /\ Len(last.args.vec) = 2
  /\ dim(u) = 2
  /\ \E k \in 1..Len(last.ret.vec) : last.ret.vec[k] = INVALID_EQUATION_NUM
  /\ \E k \in 1..Len(last.ret.vec) : last.ret.vec[k] > 0

PointwiseOps == {"_bop", "map"}

\* C9: a point-wise operation (add, sub, mul, div, bop, map) leaves the
\* operands as they were and returns a new field of the same shape with no
\* boundary-condition metadata: no component of it is prescribed and its
\* neqns() is nfens()*dim().
C9_PointwiseResultUnconstrained ==
  [][ (last'.op \in PointwiseOps) =>
        ( /\ u' = u
          /\ ~last'.threw =>
               LET r == last'.ret.fld
               IN /\ nfens(r) = nfens(u)
                  /\ dim(r) = dim(u)
                  /\ \A c \in Components(r) : ~isPrescribed(r, c[1], c[2])
                  /\ neqns(r).ret = nfens(r) * dim(r) ) ]_vars

\* a field with a prescribed component and a cached numbering has been
\* combined with itself
C9_Witness ==
  /\ last.op = "_bop"
  /\ ~last.threw
  /\ last.args.other.t = "field"
  /\ PrescribedSet(u) /= {}
  /\ u.eqnums /= Null

\* the operands _bop takes: a number, a field of the same nfens and dim, an
\* array of length dim
AcceptedOperand(f, other) ==
  \/ other.t = "number"
  \/ other.t = "field" /\ nfens(other.fld) = nfens(f) /\ dim(other.fld) = dim(f)
  \/ other.t = "array" /\ Len(other.arr) = dim(f)

\* C10: a binary point-wise operation returns a field for a number, a field
\* of the same nfens() and dim(), or an array of length dim(); for any other
\* operand it throws and returns no field.
C10_BopAcceptsOnlyMatchingOperands ==
  (last.op = "_bop") =>
    /\ last.threw <=> ~AcceptedOperand(u, last.args.other)
    /\ last.threw => (last.ret.fld = NoField)
    /\ ~last.threw =>
         (nfens(last.ret.fld) = nfens(u) /\ dim(last.ret.fld) = dim(u))

\* a field of one node more has been refused
C10_Witness ==
  /\ last.op = "_bop"
  /\ last.threw
  /\ last.args.other.t = "field"
  /\ nfens(last.args.other.fld) = nfens(u) + 1
  /\ dim(last.args.other.fld) = dim(u)

(***************************************************************************)
(* Two fields.                                                             *)
(***************************************************************************)
\* every read of a component, and neqns, gives the same on a and on b
ReadsAgree(a, b) ==
  /\ nfens(a) = nfens(b)
  /\ dim(a) = dim(b)
  /\ neqns(a).ret = neqns(b).ret
  /\ \A c \in Components(a) :
       /\ at(a, c[1])[c[2]] = at(b, c[1])[c[2]]
       /\ isPrescribed(a, c[1], c[2]) = isPrescribed(b, c[1], c[2])
       /\ prescribedValue(a, c[1], c[2]) = prescribedValue(b, c[1], c[2])
       /\ eqnum(a, c[1], c[2]).ret = eqnum(b, c[1], c[2]).ret

\* the values, the prescribed tables and the equation numbers of a field
TablesOf(f) == <<f.values, f.prescribed, f.prescribedValues, f.eqnums>>

Mutators == {"setPrescribedValue_", "scatterSystemVector_"}

\* C11: right after u.clone() every read agrees on the field and its clone;
\* and a setPrescribedValue_ or scatterSystemVector_ on either of the two
\* leaves the values, the prescribed tables and the equation numbers of the
\* other as they were.
C11_CloneIdenticalAndIndependent ==
  [][ /\ (last'.op = "clone" => ReadsAgree(u', w'))
      /\ (last'.op \in Mutators /\ last'.on = "u" => TablesOf(w') = TablesOf(w))
      /\ (last'.op \in Mutators /\ last'.on = "w" => TablesOf(u') = TablesOf(u))
    ]_vars

\* a component was prescribed on the cloned field after cloning: it is
\* prescribed there and free on the clone
C11_Witness ==
  /\ w /= NoField
  /\ last.op = "setPrescribedValue_"
  /\ last.on = "u"
  /\ ~last.threw
  /\ isPrescribed(u, last.args.idx, last.args.dir)
  /\ ~isPrescribed(w, last.args.idx, last.args.dir)

\* C12: two fields with the same nfens, dim and prescribed table give the
\* same neqns() and the same eqnum for every component, whatever their
\* values and prescribed values and whatever the order of the calls that
\* set the table.
C12_NumberingDeterminedByPrescribedTable ==
  ( /\ w /= NoField
    /\ nfens(u) = nfens(w)
    /\ dim(u) = dim(w)
    /\ PrescribedSet(u) = PrescribedSet(w) )
  => /\ neqns(u).ret = neqns(w).ret
     /\ \A c \in Components(u) :
          eqnum(u, c[1], c[2]).ret = eqnum(w, c[1], c[2]).ret

\* the part of C12 that holds: numbering anew, the tables are the same
C12_FreshNumberingDeterminedByPrescribedTable ==
  ( /\ w /= NoField
    /\ PrescribedSet(u) = PrescribedSet(w) )
  => /\ numberEqnums(u).eqnums = numberEqnums(w).eqnums
     /\ numberEqnums(u).neqns = numberEqnums(w).neqns

(***************************************************************************)
(* Cell sets.                                                              *)
(***************************************************************************)
\* the topology of a cell set has the cell size and the dimension of the
\* cell set's class
AgreesWithTopology(cells) ==
  /\ getMaxCellSize(cells.topology) = cellSize(cells.type)
  /\ getDim(cells.topology) = GCellSet_dim(cells.type)

\* C13: every cell set a constructor call gave or a method returned has a
\* topology whose top-dimension cell size is its cellSize() and whose
\* dimension is its dim(); a GCellSet constructor call with a topology that
\* disagrees on either throws and gives no cell set.
C13_ConstructedAgreesWithTopology ==
  /\ (cs /= NoCellSet => AgreesWithTopology(cs))
  /\ (cslast.ret.cs /= NoCellSet => AgreesWithTopology(cslast.ret.cs))
  /\ ( ( /\ cslast.op = "GCellSet"
          /\ cslast.type \in ConcreteTypes
          /\ \/ getMaxCellSize(cslast.args.options.topology) /= cellSize(cslast.type)
             \/ getDim(cslast.args.options.topology) /= GCellSet_dim(cslast.type) )
        => cslast.threw /\ cs = NoCellSet /\ cslast.ret.cs = NoCellSet )

\* a constructor call threw for a topology of the right cell size and the
\* wrong dimension
C13_Witness ==
  /\ cslast.op = "GCellSet"
  /\ cslast.type \in ConcreteTypes
  /\ "topology" \in cslast.args.options.has
  /\ getMaxCellSize(cslast.args.options.topology) = cellSize(cslast.type)
  /\ getDim(cslast.args.options.topology) /= GCellSet_dim(cslast.type)
  /\ cslast.threw

\* the nodes of each row of a connectivity list
SidesOf(cells) == {{cells[k][n] : n \in 1..Len(cells[k])} : k \in 1..Len(cells)}

\* C14: boundary() of a Q4 set gives an L2 set on the boundary of its
\* topology; for conn = [[0,1,2,3]] that set has exactly the four sides,
\* each once.
C14_BoundaryOfQ4IsL2 ==
  (cslast.op = "boundary" /\ cslast.type = "Q4")
  => /\ ~cslast.threw
     /\ cslast.ret.cs.type = "L2"
     /\ cslast.ret.cs.topology = Topology_boundary(cs.topology)
     /\ ( GCellSet_conn(cs) = <<<<0, 1, 2, 3>>>>
          => /\ count(cslast.ret.cs) = 4
             /\ SidesOf(GCellSet_conn(cslast.ret.cs))
                  = {{0, 1}, {1, 2}, {2, 3}, {3, 0}} )

\* the indices of a list that are no index of a row of cells
OutOfRange(cells, indices) ==
  {k \in 1..Len(indices) : indices[k] \notin 0..(count(cells) - 1)}

\* C15: for in-range indices subset gives a set of the same type with one
\* row per index, the k-th row being row indices[k] of the set, and with
\* the set's axisSymm and otherDimension.
C15_SubsetTakesListedRows ==
  (cslast.op = "subset" /\ OutOfRange(cs, cslast.args.indices) = {})
  => /\ ~cslast.threw
     /\ cslast.ret.cs.type = cs.type
     /\ count(cslast.ret.cs) = Len(cslast.args.indices)
     /\ \A k \in 1..Len(cslast.args.indices) :
          GCellSet_conn(cslast.ret.cs)[k]
            = GCellSet_conn(cs)[cslast.args.indices[k] + 1]
     /\ axisSymm(cslast.ret.cs) = axisSymm(cs)
     /\ cslast.ret.cs.otherDimension = cs.otherDimension

\* subset([1]) on a Q4 set of three cells, axially symmetric and with
\* otherDimension 2, gave the second row
C15_Witness ==
  /\ cslast.op = "subset"
  /\ cs.type = "Q4"
  /\ count(cs) = 3
  /\ axisSymm(cs)
  /\ cs.otherDimension = 2
  /\ cslast.args.indices = <<1>>
  /\ ~cslast.threw
  /\ GCellSet_conn(cslast.ret.cs) = <<GCellSet_conn(cs)[2]>>

\* C16: subset with an index that is negative or >= count() fails with an
\* index-out-of-range error, and no set subset returns has a missing row.
C16_SubsetRejectsOutOfRange ==
  cslast.op = "subset"
  => /\ ( OutOfRange(cs, cslast.args.indices) /= {}
          => cslast.threw /\ cslast.error = "IndexOutOfRange" )
     /\ \A k \in 1..count(cslast.ret.cs) :
          GCellSet_conn(cslast.ret.cs)[k] /= MissingRow

\* C17: clone() of an L2 or Q4 set gives a set with the same connectivity,
\* axisSymm and otherDimension, and Mesh.map gives a mesh that holds such a
\* clone.
C17_CloneGivesEqualCellSet ==
  cslast.op \in {"clone", "Mesh.map"}
  => /\ ~cslast.threw
     /\ cslast.ret.cs.type = cs.type
     /\ GCellSet_conn(cslast.ret.cs) = GCellSet_conn(cs)
     /\ axisSymm(cslast.ret.cs) = axisSymm(cs)
     /\ cslast.ret.cs.otherDimension = cs.otherDimension

(***************************************************************************)
(* C18: jacobianInDim of a 1-manifold cell set hands dimension 1 to        *)
(* jacobianCurve, 2 to jacobianSurface and 3 to jacobianVolumn; that of a  *)
(* 2-manifold cell set hands 2 to jacobianSurface and 3 to jacobianVolumn. *)
(* Every other dimension throws, 1 on a 2-manifold included.               *)
(***************************************************************************)
JacobianOf(manifold, D) ==
  CASE D = 3 -> "jacobianVolumn"
    [] D = 2 -> "jacobianSurface"
    [] D = 1 /\ manifold = 1 -> "jacobianCurve"
    [] OTHER -> ""

C18_JacobianInDimDispatch ==
  cslast.op = "jacobianInDim" =>
    LET to == JacobianOf(GCellSet_dim(cslast.type), cslast.args.dim)
    IN IF to = "" THEN cslast.threw
       ELSE ~cslast.threw /\ cslast.ret.via = to

\* a 2-manifold cell set was asked for dimension 1 and threw
C18_Witness ==
  /\ cslast.op = "jacobianInDim"
  /\ cslast.type = "Q4"
  /\ cslast.args.dim = 1
  /\ cslast.threw

(***************************************************************************)
(* C19: bfun and bfundpar of L2 and Q4 throw, and return nothing, whenever *)
(* paramCoords is not a vector of length dim(): 1 for L2, 2 for Q4.        *)
(***************************************************************************)
C19_ShapeFunctionsRejectWrongLength ==
  ( /\ cslast.op \in {"bfun", "bfundpar"}
    /\ Len(cslast.args.p) /= GCellSet_dim(cslast.type) )
  => /\ cslast.threw
     /\ cslast.ret.mat = <<>>

(***************************************************************************)
(* Sums of doubles as JS adds them, one entry after the other from 0.      *)
(***************************************************************************)
RECURSIVE FSumTo(_, _)
FSumTo(xs, k) == IF k = 0 THEN Zero ELSE FAdd(FSumTo(xs, k - 1), xs[k])

FSum(xs) == FSumTo(xs, Len(xs))

\* column j of a matrix
Column(mat, j) == [i \in 1..Len(mat) |-> mat[i][j]]

\* all entries of a matrix, row after row
RECURSIVE Entries(_)
Entries(mat) == IF mat = <<>> THEN <<>> ELSE Head(mat) \o Entries(Tail(mat))

\* the call was of op with a point of the cell's parametric domain, every
\* coordinate in [-1, 1] as all of Coords are
ValidPoint(op) ==
  /\ cslast.op = op
  /\ Len(cslast.args.p) = GCellSet_dim(cslast.type)
  /\ ~cslast.threw

(***************************************************************************)
(* C20 as stated: for L2 and Q4 and every valid parametric point p the     *)
(* entries of bfun(p) sum to 1 (bfun of L2 at [0] is [[0.5],[0.5]]) and    *)
(* each column of bfundpar(p) sums to 0.                                   *)
(***************************************************************************)
C20_PartitionOfUnity ==
  /\ ValidPoint("bfun") => FSum(Entries(cslast.ret.mat)) = One
  /\ ( /\ ValidPoint("bfun")
       /\ cslast.type = "L2"
       /\ cslast.args.p = <<Zero>> ) => cslast.ret.mat = << <<Half>>, <<Half>> >>
  /\ ValidPoint("bfundpar") =>
       \A j \in 1..GCellSet_dim(cslast.type) :
         FSum(Column(cslast.ret.mat, j)) = Zero

\* 2^-50: eight units in the last place of 1
Tolerance == Double(1, <<1>>, -50)

\* |x| <= |y| for doubles, compared exactly at the lower exponent
AbsLessEq(x, y) ==
  /\ ~x.nan
  /\ ~y.nan
  /\ LET e == IF x.e <= y.e THEN x.e ELSE y.e
     IN ~BigLess(BigShift(y.m, y.e - e), BigShift(x.m, x.e - e))

\* x is within Tolerance of y; for x between y/2 and 2y, and for y = 0, the
\* difference of the doubles is itself a double
Near(x, y) == AbsLessEq(FSub(x, y), Tolerance)

(***************************************************************************)
(* C20, amended: for L2 and Q4 and every valid parametric point p the      *)
(* entries of bfun(p), added as doubles in row order, sum to 1 within      *)
(* 2^-50, and exactly to 1 for L2 (bfun of L2 at [0] is [[0.5],[0.5]]);    *)
(* each column of bfundpar(p) sums to 0 within 2^-50, and exactly to 0 for *)
(* L2.                                                                     *)
(***************************************************************************)
C20_PartitionOfUnityUpToRounding ==
  /\ ValidPoint("bfun") =>
       /\ Near(FSum(Entries(cslast.ret.mat)), One)
       /\ cslast.type = "L2" => FSum(Entries(cslast.ret.mat)) = One
  /\ ( /\ ValidPoint("bfun")
       /\ cslast.type = "L2"
       /\ cslast.args.p = <<Zero>> ) => cslast.ret.mat = << <<Half>>, <<Half>> >>
  /\ ValidPoint("bfundpar") =>
       \A j \in 1..GCellSet_dim(cslast.type) :
         /\ Near(FSum(Column(cslast.ret.mat, j)), Zero)
         /\ cslast.type = "L2" => FSum(Column(cslast.ret.mat, j)) = Zero

\* bfun of Q4 at a point where the sum of the four doubles is not 1
C20_Witness ==
  /\ ValidPoint("bfun")
  /\ cslast.type = "Q4"
  /\ cslast.args.p = <<Tenth, Tenth>>
  /\ FSum(Entries(cslast.ret.mat)) /= One

(***************************************************************************)
(* C21: jacobianVolumn is built the same way on both manifold classes: on  *)
(* an axisymmetric set it is the lower Jacobian (curve on a 1-manifold,    *)
(* surface on a 2-manifold) times 2 * pi times the first coordinate of the *)
(* point N^T x (times otherDimension on a 1-manifold), otherwise the lower *)
(* Jacobian times otherDimension; the radial factor of the 2-manifold is   *)
(* the number the 1-manifold uses for the same N and x.                    *)
(***************************************************************************)
\* the first coordinate of the interpolated point N^T x
Radial(N, x) == SumOfProducts(nthColumn(N, 1), nthColumn(x, 1), Len(N))

\* the Jacobian of the manifold's own dimension
LowerJacobian(cells, conn, N, J, x) ==
  IF GCellSet_dim(cells.type) = 1
  THEN Manifold1GCellSet_jacobianCurve(cells, conn, N, J, x)
  ELSE Manifold2GCellSet_jacobianSurface(cells, conn, N, J, x)

C21_VolumeJacobian ==
  jlast.op = "jacobianVolumn" =>
    LET cells == jlast.on
        lower == LowerJacobian(cells, jlast.conn, jlast.N, jlast.J, jlast.x)
        radius == Number(Radial(jlast.N, jlast.x))
        thickness == Number(cells.otherDimension)
        circle == Times(Times(Number(2), Math_PI), radius)
    IN ~lower.threw =>
         /\ ~jlast.threw
         /\ jlast.ret =
              IF ~cells.axisSymm THEN Times(lower.num, thickness)
              ELSE IF GCellSet_dim(cells.type) = 1
              THEN Times(Times(lower.num, circle), thickness)
              ELSE Times(lower.num, circle)

\* side s of a quadrilateral, from its s-th node to the next one around
Side(cell, s) == <<cell[s], cell[(s % 4) + 1]>>

\* the node that the quadrilaterals made of cell i have between the ends of
\* its side s: n12, n23, n34, n41
MidpointNode(rows, i, s) ==
  CASE s = 1 -> rows[4 * (i - 1) + 1][2]
    [] s = 2 -> rows[4 * (i - 1) + 3][3]
    [] s = 3 -> rows[4 * (i - 1) + 2][3]
    [] s = 4 -> rows[4 * (i - 1) + 1][4]

\* C22: subdivideQ4 gives distinct edges distinct midpoint nodes: hashEdge
\* is equal only for the same unordered pair of nodes, two sides have the
\* same node between their ends only if they are the same edge, and that
\* node lies in the middle of the side's ends.
C22_DistinctEdgesDistinctMidpoints ==
  (mlast.op = "subdivideQ4" /\ ~mlast.threw) =>
    LET cells == mlast.on.gcells.topology.cells
        fens == mlast.on.fens
        rows == mlast.ret.gcells.topology.cells
        sides == (1..Len(cells)) \X (1..4)
    IN \A a \in sides :
         LET e == Side(cells[a[1]], a[2])
             m == MidpointNode(rows, a[1], a[2])
         IN /\ \A j \in 0..1 :
                 2 * mlast.ret.fens[m][j] = fens[e[1]][j] + fens[e[2]][j]
            /\ \A b \in sides :
                 LET f == Side(cells[b[1]], b[2])
                 IN /\ hashEdge(e[1], e[2]) = hashEdge(f[1], f[2]) <=> SameFace(e, f)
                    /\ m = MidpointNode(rows, b[1], b[2]) <=> SameFace(e, f)

\* the calls that read the field
FieldReads ==
  {"eqnum", "neqns", "gatherEqnumsVector", "gatherValuesMatrix",
   "gatherPrescirbedValues"}

\* the calls that demand the numbering whatever their arguments
NumberingDemands == {"eqnum", "neqns", "scatterSystemVector_"}

\* C23: the numbering is computed on the first demand and then cached.  In a
\* step of eqnum, neqns, gatherEqnumsVector, gatherValuesMatrix,
\* gatherPrescirbedValues or scatterSystemVector_: a numbering the field has
\* stays as it is; one it has not is, when demanded, the numbering of its
\* prescribed state; neqns() returns the count, never -1; eqnum and
\* gatherEqnumsVector return the entries of the table; and the reads leave
\* the values and the prescribed tables as they were.
C23_NumberingCached ==
  [][last'.op \in FieldReads \cup {"scatterSystemVector_"} =>
       /\ u.eqnums /= Null => u'.eqnums = u.eqnums /\ u'.neqns = u.neqns
       /\ u.eqnums = Null /\ u'.eqnums /= Null =>
            /\ u'.eqnums = numberEqnums(u).eqnums
            /\ u'.neqns = numberEqnums(u).neqns
       /\ last'.op \in NumberingDemands => u'.eqnums /= Null /\ u'.neqns >= 0
       /\ last'.op = "neqns" => ~last'.threw /\ last'.ret.num = u'.neqns
       /\ last'.op = "eqnum" /\ ~last'.threw =>
            last'.ret.num = u'.eqnums[last'.args.idx][last'.args.dir]
       /\ last'.op = "gatherEqnumsVector" /\ ~last'.threw =>
            \A k \in 1..Len(last'.args.vec), j \in 0..(dim(u) - 1) :
              last'.ret.vec[(k - 1) * dim(u) + j + 1]
                = u'.eqnums[last'.args.vec[k]][j]
       /\ last'.op \in FieldReads =>
            /\ u'.values = u.values
            /\ u'.prescribed = u.prescribed
            /\ u'.prescribedValues = u.prescribedValues
    ]_vars

\* a read of the values after the field was numbered with a component
\* prescribed and after values were scattered into it
C23_Witness ==
  /\ last.op = "gatherValuesMatrix"
  /\ Len(last.args.vec) > 0
  /\ u.eqnums /= Null
  /\ u.neqns > 0
  /\ PrescribedSet(u) /= {}
  /\ \E i \in 0..(nfens(u) - 1), j \in 0..(dim(u) - 1) : at(u, i)[j] >= 5

\* the positions of the nodes and of the directions of the load nl
LoadPairs == (1..Len(nl.ids)) \X (1..Len(nl.dirs))

\* C24: loads(u) returns ids.length * dirs.length loads, id-major then by
\* direction, the load for (ids[i], dirs[j]) with eqnum u.eqnum(ids[i],
\* dirs[j]) and value magns[j]; a load on a component prescribed in u has
\* equation number -1; a load on a node or direction out of range makes
\* loads(u) throw.
C24_LoadsPerNodeAndDirection ==
  last.op = "loads" =>
    IF \E p \in LoadPairs :
         \/ nl.ids[p[1]] < 0 \/ nl.ids[p[1]] >= nfens(u)
         \/ nl.dirs[p[2]] < 0 \/ nl.dirs[p[2]] >= dim(u)
    THEN last.threw
    ELSE /\ ~last.threw
         /\ Len(last.ret.loads) = Len(nl.ids) * Len(nl.dirs)
         /\ \A p \in LoadPairs :
              LET load == last.ret.loads[(p[1] - 1) * Len(nl.dirs) + p[2]]
              IN /\ load.eqnum = eqnum(u, nl.ids[p[1]], nl.dirs[p[2]]).ret
                 /\ load.value = magnAt(nl, p[2] - 1)
                 /\ isPrescribed(u, nl.ids[p[1]], nl.dirs[p[2]])
                      => load.eqnum = INVALID_EQUATION_NUM

====
